---- MODULE Spec2Model ----
(***************************************************************************)
(* Model of the itemsync plugin of CopyQ (plugins/itemsync/itemsync.cpp):  *)
(* the FileWatcher that keeps the rows of a tab's item model and the files *)
(* of a directory in step.                                                 *)
(*                                                                         *)
(* Strings that the code takes apart (file names, base names, extensions)  *)
(* are sequences of one-character strings; MIME types are only compared,   *)
(* so they are TLA+ strings.  A QVariantMap is a set of <<key, value>>     *)
(* pairs with unique keys, iterated in key order as QMap does.             *)
(***************************************************************************)
EXTENDS Integers, Sequences, FiniteSets, TLC

(***************************************************************************)
(* Strings                                                                 *)
(***************************************************************************)
EmptyStr == << >>

\* QString::endsWith
EndsWith(s, suf) ==
    /\ Len(suf) <= Len(s)
    /\ SubSeq(s, Len(s) - Len(suf) + 1, Len(s)) = suf

\* QString::left(n)
Left(s, n) == SubSeq(s, 1, n)

\* QString::mid(i) with a 0-based position i
Mid(s, i) == SubSeq(s, i + 1, Len(s))

\* QString::lastIndexOf(c): 0-based position, -1 when absent
LastIndexOf(s, c) ==
    LET hits == {i \in 1..Len(s) : s[i] = c}
    IN  IF hits = {} THEN -1
        ELSE (CHOOSE i \in hits : \A j \in hits : j <= i) - 1

Digits == <<"0", "1", "2", "3", "4", "5", "6", "7", "8", "9">>

IsDigit(c) == \E d \in 1..10 : Digits[d] = c

DigitVal(c) == (CHOOSE d \in 1..10 : Digits[d] = c) - 1

\* the number a string of decimal digits stands for, or -1 when it does not
\* fit a 32-bit int
RECURSIVE Decimal(_)
Decimal(s) ==
    IF s = << >> THEN 0
    ELSE LET high == Decimal(SubSeq(s, 1, Len(s) - 1))
             d == DigitVal(s[Len(s)])
         IN  IF high < 0 \/ high > (2147483647 - d) \div 10 THEN -1
             ELSE 10 * high + d

\* QString::toInt of a string of decimal digits: 0 when the conversion fails
ToInt(s) == IF Decimal(s) < 0 THEN 0 ELSE Decimal(s)

\* decimal digits of n >= 0
RECURSIVE ToStr(_)
ToStr(n) ==
    IF n < 10 THEN <<Digits[n + 1]>>
    ELSE ToStr(n \div 10) \o <<Digits[(n % 10) + 1]>>

RECURSIVE PadLeft(_, _)
PadLeft(s, w) == IF Len(s) >= w THEN s ELSE PadLeft(<<"0">> \o s, w)

\* QString("%1").arg(n, fieldWidth, 10, QChar('0'))
Arg(n, fieldWidth) == PadLeft(ToStr(n), fieldWidth)

\* length of the match of QRegExp("\\d+$"): the trailing run of digits
RECURSIVE TrailingDigits(_)
TrailingDigits(s) ==
    IF s = << >> \/ ~IsDigit(s[Len(s)]) THEN 0
    ELSE 1 + TrailingDigits(SubSeq(s, 1, Len(s) - 1))

(***************************************************************************)
(* Constants of the source                                                 *)
(***************************************************************************)
dataFileSuffix == <<"_", "c", "o", "p", "y", "q", ".", "d", "a", "t">>

sizeLimit == 10485760

updateItemsIntervalMs == 2000

mimeText == "text/plain"
mimeUriList == "text/uri-list"
mimeHtml == "text/html"
mimeItemNotes == "application/x-copyq-item-notes"
mimeCustom == "application/x-custom"

Ext(extension, format) == [extension |-> extension, format |-> format]

\* the built-in table, in the order the code appends it
fileExtensionsAndFormats ==
    << Ext(<<"_", "n", "o", "t", "e", ".", "t", "x", "t">>, mimeItemNotes),
       Ext(<<".", "b", "m", "p">>, "image/bmp"),
       Ext(<<".", "g", "i", "f">>, "image/gif"),
       Ext(<<".", "h", "t", "m", "l">>, mimeHtml),
       Ext(<<"_", "i", "n", "k", "s", "c", "a", "p", "e", ".", "s", "v", "g">>,
           "image/x-inkscape-svg-compressed"),
       Ext(<<".", "j", "p", "g">>, "image/jpeg"),
       Ext(<<".", "j", "p", "g">>, "image/jpeg"),
       Ext(<<".", "p", "n", "g">>, "image/png"),
       Ext(<<".", "t", "x", "t">>, mimeText),
       Ext(<<".", "u", "r", "i">>, mimeUriList),
       Ext(<<".", "x", "m", "l">>, "application/xml"),
       Ext(<<"_", "x", "m", "l", ".", "s", "v", "g">>, "image/svg+xml"),
       Ext(<<".", "x", "m", "l">>, "text/xml"),
       Ext(dataFileSuffix, "") >>

\* FileFormat
FileFormat(extensions, itemMime) == [extensions |-> extensions, itemMime |-> itemMime]

InvalidFormat == FileFormat(<< >>, "")

\* m_formatSettings: the user's format list after fixUserExtensions
\* (every extension begins with a dot)
formatSettings ==
    << FileFormat(<< <<".", "c">> >>, "x-user/c"),
       FileFormat(<< <<".", "i">> >>, "-") >>

(***************************************************************************)
(* QVariantMap: a set of <<key, value>> pairs with unique keys             *)
(***************************************************************************)
Keys(m) == {p[1] : p \in m}

Contains(m, k) == k \in Keys(m)

Value(m, k) == (CHOOSE p \in m : p[1] = k)[2]

Remove(m, k) == {p \in m : p[1] # k}

Insert(m, k, v) == Remove(m, k) \cup {<<k, v>>}

\* every MIME type of the model, in the key order of QMap<QString, ...>
MimeOrder ==
    << "", mimeItemNotes, mimeCustom, "application/xml", "image/bmp", "image/gif",
       "image/jpeg", "image/png", "image/svg+xml", "image/x-inkscape-svg-compressed",
       mimeHtml, mimeText, mimeUriList, "text/xml", "x-user/c" >>

\* QMap::keys(): the keys of m in ascending order
SortedKeys(m) == SelectSeq(MimeOrder, LAMBDA k : Contains(m, k))

(***************************************************************************)
(* Format registry                                                         *)
(***************************************************************************)
\* all (format index, extension index) pairs of a format list, in list order
RECURSIVE FirstFormatMatch(_, _, _, _)
FirstFormatMatch(fileName, formats, i, j) ==
    IF i > Len(formats) THEN [format |-> InvalidFormat, ext |-> EmptyStr]
    ELSE IF j > Len(formats[i].extensions)
         THEN FirstFormatMatch(fileName, formats, i + 1, 1)
    ELSE IF EndsWith(fileName, formats[i].extensions[j])
         THEN [format |-> formats[i], ext |-> formats[i].extensions[j]]
    ELSE FirstFormatMatch(fileName, formats, i, j + 1)

\* getFormatSettingsFromFileName: the first format with an extension the
\* file name ends with, and that extension (foundExt)
getFormatSettingsFromFileName(fileName, formats) ==
    FirstFormatMatch(fileName, formats, 1, 1)

FileFormat_isValid(format) == format.extensions # << >>

\* a findByFormat that never looks into the built-in table
findByFormat_noTable(format, exts, userExtension) ==
    IF Contains(userExtension, format)
    THEN Ext(Value(userExtension, format), format)
    ELSE Ext(EmptyStr, "")

\* findByFormat: the item's own extension map first, then the built-in table
findByFormat(format, exts, userExtension) ==
    IF Contains(userExtension, format)
    THEN Ext(Value(userExtension, format), format)
    ELSE LET hits == {i \in 1..Len(exts) : exts[i].format = format}
         IN  IF hits = {} THEN Ext(EmptyStr, "")
             ELSE exts[CHOOSE i \in hits : \A j \in hits : i <= j]

\* findByExtension: the first entry whose extension the file name ends with
findByExtension(fileName, exts) ==
    LET hits == {i \in 1..Len(exts) : EndsWith(fileName, exts[i].extension)}
    IN  IF hits = {} THEN Ext(EmptyStr, "")
        ELSE exts[CHOOSE i \in hits : \A j \in hits : i <= j]

(***************************************************************************)
(* Base-name allocator                                                     *)
(***************************************************************************)
\* name->replace(QRegExp("/|\\\\|^\\."), "_"); name->remove(QRegExp("\\n|\\r"))
Sanitize(name) ==
    LET replaced == [i \in 1..Len(name) |->
                        IF name[i] \in {"/", "\\"} \/ (i = 1 /\ name[i] = ".")
                        THEN "_" ELSE name[i]]
    IN  SelectSeq(replaced, LAMBDA c : c \notin {"\n", "\r"})

InSeq(x, s) == \E i \in 1..Len(s) : s[i] = x

\* the do-while loop of renameToUnique: i is the counter before ++i
RECURSIVE NextFreeName(_, _, _, _, _)

\* a loop that takes the first candidate, used or not
NextFreeName_first(baseName, i, fieldWidth, ext, usedNames) ==
    IF i >= 99999 THEN [ok |-> FALSE, name |-> EmptyStr]
    ELSE [ok |-> TRUE, name |-> baseName \o Arg(i + 1, fieldWidth) \o ext]

NextFreeName(baseName, i, fieldWidth, ext, usedNames) ==
    IF i >= 99999 THEN [ok |-> FALSE, name |-> EmptyStr]
    ELSE LET newName == baseName \o Arg(i + 1, fieldWidth) \o ext
         IN  IF InSeq(newName, usedNames)
             THEN NextFreeName(baseName, i + 1, fieldWidth, ext, usedNames)
             ELSE [ok |-> TRUE, name |-> newName]

\* a renameToUnique that accepts the sanitized name without looking at
\* usedNames
renameToUnique_keepsName(name0, usedNames, formats) ==
    [ok |-> TRUE, name |-> Sanitize(name0),
     usedNames |-> Append(usedNames, Sanitize(name0))]

\* the end of renameToUnique: the do-while loop and what follows it.  name
\* is the sanitized name, baseName the part before the counter i.
RenameCounting(name, baseName, i, fieldWidth, ext, usedNames) ==
    LET r == NextFreeName(baseName, i, fieldWidth, ext, usedNames)
    IN  IF r.ok
        THEN [ok |-> TRUE, name |-> r.name, usedNames |-> Append(usedNames, r.name)]
        ELSE [ok |-> FALSE, name |-> name, usedNames |-> usedNames]

\* renameToUnique from QRegExp re("\\d+$") on: the trailing digits of the
\* base name are the counter, or "-" is appended and the counter is 0
RenameNumbered(name, base1, ext, usedNames) ==
    LET w == TrailingDigits(base1)
    IN  RenameCounting(name,
                       IF w > 0 THEN Left(base1, Len(base1) - w)
                       ELSE Append(base1, "-"),
                       IF w > 0 THEN ToInt(Mid(base1, Len(base1) - w)) ELSE 0,
                       w, ext, usedNames)

\* renameToUnique once the extension ext0 is known: a dot that ends the
\* base name moves to the extension
RenameWithExt(name, ext0, usedNames) ==
    LET base0 == Left(name, Len(name) - Len(ext0))
        chop == EndsWith(base0, <<".">>)
    IN  RenameNumbered(name,
                       IF chop THEN Left(base0, Len(base0) - 1) ELSE base0,
                       IF chop THEN <<".">> \o ext0 ELSE ext0,
                       usedNames)

\* the extension renameToUnique keeps at the end of the name: that of the
\* user's format the name matches, else what follows the last dot
ExtensionToKeep(name, formats) ==
    LET found == getFormatSettingsFromFileName(name, formats)
        dot == LastIndexOf(name, ".")
    IN  IF FileFormat_isValid(found.format) THEN found.ext
        ELSE IF dot # -1 THEN Mid(name, dot) ELSE EmptyStr

\* a renameToUnique that accepts a free name without appending it to
\* usedNames
RenameSanitized_forgets(name, usedNames, formats) ==
    IF ~InSeq(name, usedNames)
    THEN [ok |-> TRUE, name |-> name, usedNames |-> usedNames]
    ELSE RenameWithExt(name, ExtensionToKeep(name, formats), usedNames)

\* renameToUnique after the name has been sanitized
RenameSanitized(name, usedNames, formats) ==
    IF ~InSeq(name, usedNames)
    THEN [ok |-> TRUE, name |-> name, usedNames |-> Append(usedNames, name)]
    ELSE RenameWithExt(name, ExtensionToKeep(name, formats), usedNames)

\* ::renameToUnique(QString *name, QStringList *usedNames, formatSettings):
\* [ok, name, usedNames] are the return value and the two out-parameters.
\* On failure the name keeps its sanitized value and usedNames is unchanged.
renameToUnique(name0, usedNames, formats) ==
    RenameSanitized(IF name0 = EmptyStr
                    THEN <<"c", "o", "p", "y", "q", "_", "0", "0", "0", "0">>
                    ELSE Sanitize(name0),
                    usedNames, formats)

(***************************************************************************)
(* Bytes, hashes and the key-value codec                                   *)
(*                                                                         *)
(* A byte array is a record: tag "raw" with a token standing for the       *)
(* bytes, or tag "dat" for the output of serializeData with the map it     *)
(* encodes.  The token "HUGE" stands for bytes longer than sizeLimit.      *)
(***************************************************************************)
Raw(tok) == [tag |-> "raw", tok |-> tok, map |-> {}, files |-> << >>]

\* QByteArray::size / QFile::size
Size(bytes) == IF bytes.tag = "raw" /\ bytes.tok = "HUGE" THEN sizeLimit + 1 ELSE 1

\* serializeData(const QVariantMap &)
serializeData(dataMap) ==
    [tag |-> "dat", tok |-> "", map |-> dataMap, files |-> << >>]

\* deserializeData(QVariantMap *, const QByteArray &): ok is the return
\* value, data the map after the call
deserializeData(dataMap, bytes) ==
    IF bytes.tag = "dat"
    THEN [ok |-> TRUE,
          data |-> {p \in dataMap : ~Contains(bytes.map, p[1])} \cup bytes.map]
    ELSE [ok |-> FALSE, data |-> dataMap]

\* the empty QByteArray that calculateHash(QFile *) returns for a big file
NoHash == [sha1 |-> [tag |-> "none", tok |-> "", map |-> {}, files |-> << >>]]

\* calculateHash(const QByteArray &): SHA-1, taken to be injective
calculateHash(bytes) == [sha1 |-> bytes]

\* calculateHash(QFile *)
calculateHashFile(bytes) ==
    IF Size(bytes) > sizeLimit THEN NoHash ELSE calculateHash(bytes)

(***************************************************************************)
(* The directory: files in order of modification time, oldest first        *)
(***************************************************************************)
File(name, bytes) == [name |-> name, bytes |-> bytes]

FileNames(disk) == {disk[i].name : i \in 1..Len(disk)}

Exists(disk, name) == name \in FileNames(disk)

ReadAll(disk, name) ==
    disk[CHOOSE i \in 1..Len(disk) : disk[i].name = name].bytes

WithoutFile(disk, name) == SelectSeq(disk, LAMBDA f : f.name # name)

\* QFile::open(WriteOnly) and write: the file is created or truncated and
\* becomes the newest file
WriteFile(disk, name, bytes) == Append(WithoutFile(disk, name), File(name, bytes))

\* QFile::remove
RemoveFile(disk, name) == WithoutFile(disk, name)

\* QFile::rename: fails when the source is missing or the target exists
RenameFile(disk, old, new) ==
    IF ~Exists(disk, old) \/ Exists(disk, new) THEN disk
    ELSE [i \in 1..Len(disk) |->
             IF disk[i].name = old THEN File(new, disk[i].bytes) ELSE disk[i]]

\* QFile::copy: fails when the source is missing or the target exists
CopyFile(disk, srcDisk, old, new) ==
    IF ~Exists(srcDisk, old) \/ Exists(disk, new) THEN disk
    ELSE Append(disk, File(new, ReadAll(srcDisk, old)))

\* a test that finds no file hidden
IsHidden_never(name) == FALSE

\* QFileInfo::isHidden() || fileName().startsWith('.')
IsHidden(name) == name # << >> /\ name[1] = "."

\* QDir::entryList(itemFileFilter(), QDir::Time | QDir::Reversed): the
\* files that are not hidden, oldest first
entryList(disk) ==
    LET shown == SelectSeq(disk, LAMBDA f : ~IsHidden(f.name))
    IN  [i \in 1..Len(shown) |-> shown[i].name]

(***************************************************************************)
(* Items: the QVariantMap of a row.  The keys with the itemsync prefix are *)
(* the fields base, extmap, nosave and syncpath; data holds every other    *)
(* key.                                                                    *)
(***************************************************************************)
Item(base, extmap, data, nosave, syncpath) ==
    [base |-> base, extmap |-> extmap, data |-> data, nosave |-> nosave,
     syncpath |-> syncpath]

EmptyItem == Item(EmptyStr, {}, {}, {}, "")

\* getBaseName(index)
getBaseName(rows, row) == rows[row].base

\* the sequence s without its element at position i (1-based)
RemoveAt(s, i) == SubSeq(s, 1, i - 1) \o SubSeq(s, i + 1, Len(s))

\* the sequence s with x put before its first element
Prepend(x, s) == <<x>> \o s

(***************************************************************************)
(* Directory scanner                                                       *)
(***************************************************************************)
\* the userExts list that listFiles builds from the format settings
RECURSIVE UserExts(_, _)
UserExts(formats, i) ==
    IF i > Len(formats) THEN << >>
    ELSE [j \in 1..Len(formats[i].extensions) |->
             Ext(formats[i].extensions[j], formats[i].itemMime)]
         \o UserExts(formats, i + 1)

\* a listFiles that lists the files of the MIME "-" as it lists those of
\* any other format of the user
ClassifyFile_listsIgnored(disk, filePath, formats) ==
    LET user == findByExtension(filePath, UserExts(formats, 1))
        builtin == findByExtension(filePath, fileExtensionsAndFormats)
    IN  IF IsHidden(filePath) \/ ~Exists(disk, filePath)
        THEN [skip |-> TRUE, ext |-> Ext(EmptyStr, "")]
        ELSE IF user.extension = EmptyStr
        THEN [skip |-> builtin.format = "", ext |-> builtin]
        ELSE IF user.format = ""
        THEN [skip |-> FALSE, ext |-> builtin]
        ELSE [skip |-> FALSE, ext |-> Ext(EmptyStr, user.format)]

\* the body of the loop of listFiles for one path: skip is the `continue`,
\* ext the extension and format the file is listed under
ClassifyFile(disk, filePath, formats) ==
    LET user == findByExtension(filePath, UserExts(formats, 1))
        builtin == findByExtension(filePath, fileExtensionsAndFormats)
    IN  IF IsHidden(filePath) \/ ~Exists(disk, filePath)
        THEN [skip |-> TRUE, ext |-> Ext(EmptyStr, "")]
        ELSE IF user.extension = EmptyStr
        THEN [skip |-> builtin.format = "", ext |-> builtin]
        ELSE IF user.format = "-"
        THEN [skip |-> TRUE, ext |-> user]
        ELSE IF user.format = ""
        THEN [skip |-> FALSE, ext |-> builtin]
        ELSE [skip |-> FALSE, ext |-> Ext(EmptyStr, user.format)]

BaseNameExtensions(baseName, exts) == [baseName |-> baseName, exts |-> exts]

\* the end of the loop body of listFiles: the file is added to the bucket
\* of its base name, which is created when it is not there
AddFile(fileList, filePath, c) ==
    LET baseName == Left(filePath, Len(filePath) - Len(c.ext.extension))
        hits == {i \in 1..Len(fileList) : fileList[i].baseName = baseName}
    IN  IF c.skip THEN fileList
        ELSE IF hits = {}
        THEN Append(fileList, BaseNameExtensions(baseName, <<c.ext>>))
        ELSE [fileList EXCEPT ![CHOOSE h \in hits : TRUE].exts = Append(@, c.ext)]

\* listFiles(const QStringList &files, formatSettings): the files grouped by
\* base name, in the order in which each base name is first seen
RECURSIVE ListFilesFrom(_, _, _, _, _)
ListFilesFrom(disk, files, formats, k, fileList) ==
    IF k > Len(files) THEN fileList
    ELSE ListFilesFrom(disk, files, formats, k + 1,
                       AddFile(fileList, files[k],
                               ClassifyFile(disk, files[k], formats)))

listFiles(disk, files, formats) == ListFilesFrom(disk, files, formats, 1, << >>)

\* listFiles(const QDir &): the multimap hash -> path of the listed files
listFilesDir(disk) ==
    {<<calculateHashFile(ReadAll(disk, n)), n>> :
        n \in {f \in FileNames(disk) : ~IsHidden(f)}}

(***************************************************************************)
(* FileWatcher.  A pass works on a record w of the watcher, its model and  *)
(* the directory:                                                          *)
(*   rows      the rows of the model, row 1 on top                         *)
(*   idx       m_indexToBaseName, by row: the persistent index of a row    *)
(*             moves with the row; EmptyStr is "no entry"                  *)
(*   disk      the files of m_path                                         *)
(*   watch     the files m_watcher watches                                 *)
(*   valid     m_valid                                                     *)
(*   cIns, cChg  how many times rowsInserted / dataChanged are connected   *)
(*   cRem      whether rowsRemoved is connected                            *)
(*   disabled  the model's property "disabled"                             *)
(*   ioFail    whether the next QFile::open for writing fails              *)
(*   mkFail    whether QDir::mkpath fails                                  *)
(* and on what the pass did:                                               *)
(*   slots     the slots of the watcher its own model changes invoked      *)
(*   wrote     the files it opened for writing                             *)
(*   gone      the files it removed or renamed away                        *)
(*   dropped   the rows updateItems removed, as they were                  *)
(*   open      what was amiss when it touched the model or the disk        *)
(*   failed    the row whose file it could not write, 0 when there is none *)
(***************************************************************************)
\* FileWatcher::connectModel
connectModel(w) ==
    [w EXCEPT !.cIns = @ + 1, !.cRem = TRUE, !.cChg = @ + 1, !.valid = TRUE]

\* a disconnectModel that forgets rowsInserted and dataChanged the way the
\* code leaves rowsRemoved connected
disconnectModel_keepsSlots(w) == [w EXCEPT !.valid = FALSE]

\* FileWatcher::disconnectModel: rowsRemoved stays connected
disconnectModel(w) == [w EXCEPT !.valid = FALSE, !.cChg = 0, !.cIns = 0]

\* FileWatcher::onRowsRemoved, run after the rows are gone: it drops the
\* entries of the rows that are now at the removed positions
onRowsRemoved(w, first, last) ==
    [w EXCEPT !.idx = [i \in 1..Len(w.idx) |->
                          IF first <= i /\ i <= last THEN EmptyStr ELSE w.idx[i]]]

\* what is amiss when a pass touches the model or the disk: m_valid is
\* true, or the model's property "disabled" is false
Unguarded(w) ==
    (IF w.valid THEN {"valid"} ELSE {}) \cup (IF w.disabled THEN {} ELSE {"enabled"})

\* QAbstractItemModel::setData(index, dataMap, contentType::data), with the
\* dataChanged signal it emits
setData(w, row, item) ==
    [w EXCEPT !.rows[row] = item,
              !.open = @ \cup Unguarded(w),
              !.slots = IF w.cChg > 0 THEN @ \cup {"onDataChanged"} ELSE @]

\* QAbstractItemModel::insertRow(0), with the rowsInserted signal
insertRow0(w) ==
    [w EXCEPT !.rows = Prepend(EmptyItem, @),
              !.idx = Prepend(EmptyStr, @),
              !.open = @ \cup Unguarded(w),
              !.slots = IF w.cIns > 0 THEN @ \cup {"onRowsInserted"} ELSE @]

\* a removal that takes the files of the row with it
removeRow_withFiles(w, row) ==
    LET names == {w.rows[row].base \o p[2] : p \in w.rows[row].extmap}
        w1 == [w EXCEPT !.rows = RemoveAt(@, row), !.idx = RemoveAt(@, row),
                        !.disk = SelectSeq(@, LAMBDA f : f.name \notin names),
                        !.open = @ \cup Unguarded(w)]
    IN  IF w.cRem THEN onRowsRemoved(w1, row, row) ELSE w1

\* QAbstractItemModel::removeRow(row), with the rowsRemoved signal
removeRow(w, row) ==
    LET w1 == [w EXCEPT !.rows = RemoveAt(@, row), !.idx = RemoveAt(@, row),
                        !.open = @ \cup Unguarded(w)]
    IN  IF w.cRem THEN onRowsRemoved(w1, row, row) ELSE w1

\* FileWatcher::watchPath
watchPath(w, path) == [w EXCEPT !.watch = @ \cup {path}]

\* removeFormatFiles(path, mimeToExtension)
removeFormatFiles(w, path, mimeToExtension) ==
    LET names == {path \o p[2] : p \in mimeToExtension}
    IN  [w EXCEPT !.disk = SelectSeq(@, LAMBDA f : f.name \notin names),
                  !.open = IF names \cap FileNames(w.disk) # {}
                           THEN @ \cup Unguarded(w) ELSE @,
                  !.gone = @ \cup (names \cap FileNames(w.disk))]

\* moveFormatFiles(oldPath, newPath, mimeToExtension), in key order
RECURSIVE MoveFrom(_, _, _, _, _, _)
MoveFrom(w, oldPath, newPath, mimeToExtension, keys, k) ==
    IF k > Len(keys) THEN w
    ELSE LET ext == Value(mimeToExtension, keys[k])
             disk1 == RenameFile(w.disk, oldPath \o ext, newPath \o ext)
         IN  MoveFrom([w EXCEPT !.disk = disk1,
                                !.gone = IF disk1 # w.disk
                                         THEN @ \cup {oldPath \o ext} ELSE @],
                      oldPath, newPath, mimeToExtension, keys, k + 1)

moveFormatFiles(w, oldPath, newPath, mimeToExtension) ==
    MoveFrom(w, oldPath, newPath, mimeToExtension, SortedKeys(mimeToExtension), 1)

\* m_path, and the path of another synchronized tab with its files
m_path == "B"

otherPath == "A"

otherDisk ==
    << File(<<"f", ".", "t", "x", "t">>, Raw("b")),
       File(<<"g", ".", "c">>, Raw("a")) >>

\* the number of rows the model accepts: its property "maxItems"
maxItems == 2

\* copyFormatFiles(oldPath, newPath, mimeToExtension), in key order
RECURSIVE CopyFrom(_, _, _, _, _, _, _)
CopyFrom(w, srcDisk, oldPath, newPath, mimeToExtension, keys, k) ==
    IF k > Len(keys) THEN w
    ELSE LET ext == Value(mimeToExtension, keys[k])
         IN  CopyFrom([w EXCEPT !.disk = CopyFile(@, srcDisk, oldPath \o ext,
                                                  newPath \o ext)],
                      srcDisk, oldPath, newPath, mimeToExtension, keys, k + 1)

copyFormatFiles(w, syncPath, oldPath, newPath, mimeToExtension) ==
    CopyFrom(w, IF syncPath = m_path THEN w.disk
                ELSE IF syncPath = otherPath THEN otherDisk ELSE << >>,
             oldPath, newPath, mimeToExtension, SortedKeys(mimeToExtension), 1)

\* the first loop of FileWatcher::renameToUnique: the base names of the
\* rows outside first..last
usedBaseNames(rows, first, last) ==
    LET outside == SelectSeq([i \in 1..Len(rows) |-> i],
                             LAMBDA i : ~(i >= first /\ i <= last))
    IN  [k \in 1..Len(outside) |-> getBaseName(rows, outside[k])]

\* the files of row i under its new base name: copied from the tab the
\* item comes from, or moved from the name m_indexToBaseName has for the row
FilesRenamed(w, i, baseName) ==
    LET itemData == w.rows[i]
        olderBaseName == w.idx[i]
    IN  IF itemData.syncpath # ""
        THEN copyFormatFiles(w, itemData.syncpath, itemData.base, baseName,
                             itemData.extmap)
        ELSE [(IF olderBaseName # EmptyStr
               THEN moveFormatFiles(w, olderBaseName, baseName, itemData.extmap)
               ELSE w) EXCEPT !.idx[i] = baseName]

\* the body of the second loop of FileWatcher::renameToUnique for row i,
\* r being what ::renameToUnique returned for the row's base name
RenameRow(w, i, r) ==
    LET itemData == w.rows[i]
        copyFilesFromOtherTab == itemData.syncpath # "" /\ itemData.syncpath # m_path
    IN  IF copyFilesFromOtherTab \/ r.name # itemData.base
        THEN setData(FilesRenamed(w, i, r.name), i,
                     [itemData EXCEPT !.syncpath = "", !.base = r.name])
        ELSE w

\* the second loop of FileWatcher::renameToUnique from row i on
RECURSIVE RenameRows(_, _, _, _)
RenameRows(w, used, i, last) ==
    IF i > last THEN [ok |-> TRUE, w |-> w]
    ELSE LET r == renameToUnique(w.rows[i].base, used, formatSettings)
         IN  IF ~r.ok THEN [ok |-> FALSE, w |-> w]
             ELSE RenameRows(RenameRow(w, i, r), r.usedNames, i + 1, last)

\* FileWatcher::renameToUnique(first, last)
FileWatcher_renameToUnique(w, first, last) ==
    RenameRows(w, usedBaseNames(w.rows, first, last), first, last)

\* a saveItemFile that writes the file whatever existingFiles holds
saveItemFile_alwaysWrites(w, existingFiles, filePath, bytes) ==
    IF w.ioFail
    THEN [ok |-> FALSE, w |-> w, existingFiles |-> existingFiles]
    ELSE [ok |-> TRUE,
          w |-> [w EXCEPT !.disk = WriteFile(@, filePath, bytes),
                          !.open = @ \cup Unguarded(w),
                          !.wrote = @ \cup {filePath}],
          existingFiles |-> existingFiles]

\* saveItemFile(filePath, bytes, existingFiles): ok is the return value
saveItemFile(w, existingFiles, filePath, bytes) ==
    IF <<calculateHash(bytes), filePath>> \in existingFiles
    THEN [ok |-> TRUE, w |-> w,
          existingFiles |-> existingFiles \ {<<calculateHash(bytes), filePath>>}]
    ELSE IF w.ioFail
    THEN [ok |-> FALSE, w |-> w, existingFiles |-> existingFiles]
    ELSE [ok |-> TRUE,
          w |-> [w EXCEPT !.disk = WriteFile(@, filePath, bytes),
                          !.open = @ \cup Unguarded(w),
                          !.wrote = @ \cup {filePath}],
          existingFiles |-> existingFiles]

\* the loop of saveItems over the formats of one row, from key k on.  st
\* holds the watcher record w, existingFiles, the row's itemData (data),
\* mimeToExtension, dataMapUnknown and whether every file was saved (ok).
RECURSIVE SaveFormats(_, _, _, _)

\* a loop that does not look into the no-save map
SaveFormats_savesAll(st, item, keys, k) ==
    IF k > Len(keys) \/ ~st.ok THEN st
    ELSE
      LET format == keys[k]
          bytes == Value(item.data, format)
          hasFile == Contains(item.extmap, format)
          ext == findByFormat(format, fileExtensionsAndFormats, item.extmap).extension
          r == saveItemFile(st.w, st.existingFiles, item.base \o ext, bytes)
      IN  IF ~hasFile /\ ext = EmptyStr
          THEN SaveFormats([st EXCEPT !.dataMapUnknown = Insert(@, format, bytes)],
                           item, keys, k + 1)
          ELSE SaveFormats([st EXCEPT !.mimeToExtension = Insert(@, format, ext),
                                      !.ok = r.ok, !.w = r.w,
                                      !.existingFiles = r.existingFiles],
                           item, keys, k + 1)

SaveFormats(st, item, keys, k) ==
    IF k > Len(keys) \/ ~st.ok THEN st
    ELSE
      LET format == keys[k]
          bytes == Value(item.data, format)
          hasFile == Contains(item.extmap, format)
          ext == findByFormat(format, fileExtensionsAndFormats, item.extmap).extension
          r == saveItemFile(st.w, st.existingFiles, item.base \o ext, bytes)
      IN  IF Contains(item.nosave, format)
             /\ Value(item.nosave, format) = calculateHash(bytes)
          THEN SaveFormats([st EXCEPT !.data = Remove(@, format)], item, keys, k + 1)
          ELSE IF ~hasFile /\ ext = EmptyStr
          THEN SaveFormats([st EXCEPT !.dataMapUnknown = Insert(@, format, bytes)],
                           item, keys, k + 1)
          ELSE SaveFormats([st EXCEPT !.mimeToExtension = Insert(@, format, ext),
                                      !.ok = r.ok, !.w = r.w,
                                      !.existingFiles = r.existingFiles],
                           item, keys, k + 1)

\* the mimeToExtension that saveItems stores for a row: the marker
\* {"": ""} when no format was saved, and the sidecar's entry when some
\* format has no extension
RowExtensions(st) ==
    LET mimeToExtension == IF st.mimeToExtension = {} THEN {<<"", EmptyStr>>}
                           ELSE st.mimeToExtension
    IN  IF st.dataMapUnknown # {}
        THEN Insert(mimeToExtension, "", dataFileSuffix)
        ELSE mimeToExtension

\* saveItems writes the formats without extension into <base>_copyq.dat
SaveUnknown(st, baseName) ==
    IF st.dataMapUnknown # {}
    THEN saveItemFile(st.w, st.existingFiles, baseName \o dataFileSuffix,
                      serializeData(st.dataMapUnknown))
    ELSE [ok |-> TRUE, w |-> st.w, existingFiles |-> st.existingFiles]

\* the end of the body of the loop of saveItems for one row: when the
\* extension map or the no-save map changed, the row is set, the files of
\* the formats the row has no more are removed and m_indexToBaseName is set
StoreRow(w, row, item, data, mimeToExtension) ==
    IF item.nosave # {} \/ mimeToExtension # item.extmap
    THEN [removeFormatFiles(
              setData(w, row, [item EXCEPT !.data = data, !.nosave = {},
                                           !.extmap = mimeToExtension]),
              item.base,
              {p \in item.extmap : ~Contains(mimeToExtension, p[1])})
          EXCEPT !.idx[row] = item.base]
    ELSE w

\* the loop of saveItems over the rows row..last; on a failed write the
\* pass returns at once and the model stays disconnected
RECURSIVE SaveRows(_, _, _, _)

\* the loop body after the sidecar has been saved (r is what saveItemFile
\* returned), and the rows that follow
SavedUnknown(r, st, item, row, last) ==
    IF ~r.ok THEN [r.w EXCEPT !.failed = row]
    ELSE SaveRows(StoreRow(r.w, row, item, st.data, RowExtensions(st)),
                  r.existingFiles, row + 1, last)

\* the loop body after the loop over the formats of the row
SavedFormats(st, item, row, last) ==
    IF ~st.ok THEN [st.w EXCEPT !.failed = row]
    ELSE SavedUnknown(SaveUnknown(st, item.base), st, item, row, last)

SaveRows(w, existingFiles, row, last) ==
    IF row > last THEN connectModel(w)
    ELSE
      LET item == w.rows[row]
          st == SaveFormats([w |-> w, existingFiles |-> existingFiles,
                             data |-> item.data, mimeToExtension |-> {},
                             dataMapUnknown |-> {}, ok |-> TRUE],
                            item, SortedKeys(item.data), 1)
      IN  SavedFormats(st, item, row, last)

\* FileWatcher::saveItems(first, last) after the rows have their names
SaveRenamed(r, first, last) ==
    IF ~r.ok \/ r.w.mkFail THEN r.w
    ELSE SaveRows(r.w, listFilesDir(r.w.disk), first, last)

\* FileWatcher::saveItems(first, last), rows counted from 1.  m_path is
\* not empty; dir.mkpath(".") fails when w.mkFail says so.
saveItems(w, first, last) ==
    SaveRenamed(FileWatcher_renameToUnique(disconnectModel(w), first, last),
                first, last)

\* FileWatcher::updateDataAndWatchFile from the k-th file of the bucket on:
\* r holds the watcher record w, dataMap and mimeToExtension
RECURSIVE UpdateDataFrom(_, _, _)
UpdateDataFrom(r, baseNameWithExts, k) ==
    IF k > Len(baseNameWithExts.exts) THEN r
    ELSE
      LET ext == baseNameWithExts.exts[k]
          fileName == baseNameWithExts.baseName \o ext.extension
          bytes == ReadAll(r.w.disk, fileName)
          d == deserializeData(r.dataMap, bytes)
          next ==
            IF EndsWith(fileName, dataFileSuffix) /\ d.ok
            THEN [r EXCEPT !.dataMap = d.data,
                           !.mimeToExtension = Insert(@, "", dataFileSuffix)]
            ELSE IF Size(bytes) > sizeLimit \/ ext.format = ""
            THEN [r EXCEPT !.mimeToExtension = Insert(@, "", EmptyStr)]
            ELSE [r EXCEPT !.dataMap = Insert(@, ext.format, bytes),
                           !.mimeToExtension = Insert(@, ext.format, ext.extension)]
      IN  UpdateDataFrom(IF ~Exists(r.w.disk, fileName) THEN r
                         ELSE [next EXCEPT !.w = watchPath(@, fileName)],
                         baseNameWithExts, k + 1)

updateDataAndWatchFile(w, baseNameWithExts) ==
    UpdateDataFrom([w |-> w, dataMap |-> {}, mimeToExtension |-> {}],
                   baseNameWithExts, 1)

\* FileWatcher::createItem: insertRow(0), setData, and the new row's entry
\* in m_indexToBaseName
createItem(w, dataMap) ==
    LET w1 == setData(insertRow0(w), 1, dataMap)
    IN  [w1 EXCEPT !.idx[1] = getBaseName(w1.rows, 1)]

RECURSIVE CreateFrom(_, _, _)

\* the test of the row cap that follows createItem
AfterCreate(w, fileList, k) ==
    IF Len(w.rows) >= maxItems THEN w ELSE CreateFrom(w, fileList, k + 1)

\* the body of the loop of createItemsFromFiles for the k-th bucket, r
\* being what updateDataAndWatchFile gave for it
CreateOne(r, fileList, k) ==
    IF r.mimeToExtension = {} THEN CreateFrom(r.w, fileList, k + 1)
    ELSE AfterCreate(createItem(r.w, Item(fileList[k].baseName, r.mimeToExtension,
                                          r.dataMap, {}, "")),
                     fileList, k)

\* the loop of createItemsFromFiles from the k-th bucket on
CreateFrom(w, fileList, k) ==
    IF k > Len(fileList) THEN w
    ELSE CreateOne(updateDataAndWatchFile(w, fileList[k]), fileList, k)

\* a createItemsFromFiles that creates no item
createItemsFromFiles_none(w, fileList) == connectModel(disconnectModel(w))

\* FileWatcher::createItemsFromFiles
createItemsFromFiles(w, fileList) ==
    connectModel(CreateFrom(disconnectModel(w), fileList, 1))

\* the loop of updateItems over the rows, from row `row` on: r holds the
\* watcher record w and the buckets no row has taken yet
RECURSIVE UpdateRows(_, _)

\* an update that keeps the payloads the row had
UpdateRow_keepsData(u, fileList, row, item) ==
    IF u.mimeToExtension = {}
    THEN UpdateRows([w |-> removeRow([u.w EXCEPT !.idx[row] = EmptyStr,
                                                 !.dropped = @ \cup {item}],
                                     row),
                     fileList |-> fileList], row)
    ELSE UpdateRows([w |-> setData(u.w, row,
                                   Item(item.base, u.mimeToExtension,
                                        item.data, {}, "")),
                     fileList |-> fileList], row + 1)

\* the end of the body of the loop for a row: u is what
\* updateDataAndWatchFile gave for the row's bucket, fileList the buckets
\* that are left, item the row as it was
UpdateRow(u, fileList, row, item) ==
    IF u.mimeToExtension = {}
    THEN UpdateRows([w |-> removeRow([u.w EXCEPT !.idx[row] = EmptyStr,
                                                 !.dropped = @ \cup {item}],
                                     row),
                     fileList |-> fileList], row)
    ELSE UpdateRows([w |-> setData(u.w, row,
                                   Item(item.base, u.mimeToExtension,
                                        u.dataMap, {}, "")),
                     fileList |-> fileList], row + 1)

UpdateRows(r, row) ==
    IF row > Len(r.w.rows) THEN r
    ELSE
      LET baseName == getBaseName(r.w.rows, row)
          hits == {i \in 1..Len(r.fileList) : r.fileList[i].baseName = baseName}
          i == CHOOSE h \in hits : \A j \in hits : h <= j
      IN  IF hits # {}
          THEN UpdateRow(updateDataAndWatchFile(r.w, r.fileList[i]),
                         RemoveAt(r.fileList, i), row, r.w.rows[row])
          ELSE UpdateRow([w |-> r.w, dataMap |-> {}, mimeToExtension |-> {}],
                         r.fileList, row, r.w.rows[row])

RECURSIVE WatchAll(_, _, _)
WatchAll(w, files, k) ==
    IF k > Len(files) THEN w ELSE WatchAll(watchPath(w, files[k]), files, k + 1)

\* the end of updateItems: r is what the loop over the rows left, files
\* the files of the directory
UpdateNew(r, files) ==
    connectModel([WatchAll(createItemsFromFiles(r.w, r.fileList), files, 1)
                     EXCEPT !.disabled = FALSE])

\* updateItems after disconnectModel and setProperty("disabled", true)
UpdateFrom(w, files) ==
    UpdateNew(UpdateRows([w |-> w,
                          fileList |-> listFiles(w.disk, files, formatSettings)], 1),
              files)

\* FileWatcher::updateItems; the model is alive
updateItems(w) ==
    UpdateFrom([disconnectModel(w) EXCEPT !.disabled = TRUE], entryList(w.disk))

(***************************************************************************)
(* ItemSyncLoader                                                          *)
(***************************************************************************)
\* the files of a row as the manifest lists them: dir.absoluteFilePath of
\* <base><ext> for every value of the row's extension map
RowFiles(path, item) ==
    LET keys == SortedKeys(item.extmap)
    IN  [k \in 1..Len(keys) |->
            [dir |-> path, name |-> item.base \o Value(item.extmap, keys[k])]]

\* savedFiles of ItemSyncLoader::saveItems: every file is prepended
RECURSIVE SavedFiles(_, _, _)
SavedFiles(path, rs, row) ==
    IF row > Len(rs) THEN << >>
    ELSE LET files == RowFiles(path, rs[row])
         IN  SavedFiles(path, rs, row + 1)
                 \o [k \in 1..Len(files) |-> files[Len(files) + 1 - k]]

\* ItemSyncLoader::saveItems(model, file): ok is the return value, written
\* whether writeConfiguration ran, savedFiles what it wrote.  hasWatcher,
\* path and isValid are what m_watchers, watcher->path() and
\* watcher->isValid() give.
saveTab(hasWatcher, path, isValid, rs) ==
    IF ~hasWatcher
    THEN [ok |-> FALSE, written |-> FALSE, savedFiles |-> << >>]
    ELSE IF path # "" /\ ~isValid
    THEN [ok |-> FALSE, written |-> FALSE, savedFiles |-> << >>]
    ELSE [ok |-> TRUE, written |-> TRUE,
          savedFiles |-> IF path # "" THEN SavedFiles(path, rs, 1) ELSE << >>]

\* the list of the item's files that copyItem puts into text/uri-list (as
\* URLs) and into text/plain (as escaped paths), one line per file
FileList(tag, syncPath, itemData) ==
    LET keys == SortedKeys(itemData.extmap)
    IN  [tag |-> tag, tok |-> "", map |-> {},
         files |-> [k \in 1..Len(keys) |->
                      [dir |-> syncPath,
                       name |-> itemData.base \o Value(itemData.extmap, keys[k])]]]

\* ItemSyncLoader::copyItem(model, itemData), syncPath being tabPath(model)
copyItem(syncPath, itemData) ==
    LET updateUriData == ~Contains(itemData.data, mimeUriList)
        updateTextData == ~Contains(itemData.data, mimeText)
        uriData == FileList("uri", syncPath, itemData)
        textData == FileList("txt", syncPath, itemData)
        added == (IF updateUriData THEN {<<mimeUriList, uriData>>} ELSE {})
                 \cup (IF updateTextData THEN {<<mimeText, textData>>} ELSE {})
    IN  [itemData EXCEPT
            !.syncpath = syncPath,
            !.data = @ \cup added,
            !.nosave = IF updateUriData \/ updateTextData
                       THEN {<<p[1], calculateHash(p[2])>> : p \in added}
                       ELSE @]

\* a loop body that does not look for the base name on the other rows
RemoveItemFiles_always(w, rs, row) ==
    LET baseName == getBaseName(rs, row)
        mimeToExtension == rs[row].extmap
    IN  IF baseName = EmptyStr THEN w
        ELSE IF mimeToExtension = {}
        THEN removeFormatFiles(w, baseName, {<<"", EmptyStr>>})
        ELSE removeFormatFiles(w, baseName, mimeToExtension)

\* the body of the loop of itemsRemovedByUser for the row `row` of the
\* model rs, which still holds the rows that are about to go
RemoveItemFiles(w, rs, row) ==
    LET baseName == getBaseName(rs, row)
        remove == \A i \in 1..Len(rs) : i # row => getBaseName(rs, i) # baseName
        mimeToExtension == rs[row].extmap
    IN  IF baseName = EmptyStr \/ ~remove THEN w
        ELSE IF mimeToExtension = {}
        THEN removeFormatFiles(w, baseName, {<<"", EmptyStr>>})
        ELSE removeFormatFiles(w, baseName, mimeToExtension)

\* ItemSyncLoader::itemsRemovedByUser(indexList) for the rows first..last of
\* a tab with the path tabPath
RECURSIVE itemsRemovedByUser(_, _, _, _)
itemsRemovedByUser(w, tabPath, first, last) ==
    IF first > last \/ tabPath = "" THEN w
    ELSE itemsRemovedByUser(RemoveItemFiles(w, w.rows, first), tabPath,
                            first + 1, last)

(***************************************************************************)
(* State                                                                   *)
(***************************************************************************)
VARIABLES
    rows,       \* the rows of the item model, row 1 on top
    idx,        \* m_indexToBaseName, by row
    disk,       \* the files of the synchronized directory, oldest first
    watch,      \* the files m_watcher watches
    valid,      \* m_valid
    cIns,       \* connections of rowsInserted to onRowsInserted
    cChg,       \* connections of dataChanged to onDataChanged
    cRem,       \* whether rowsRemoved is connected to onRowsRemoved
    disabled,   \* the model's property "disabled"
    timer,      \* whether m_updateTimer is running
    ops,        \* how many user and file-system events have happened
    watcherPath,       \* m_path of the watcher
    registered, \* whether m_watchers of the loader holds the model's watcher
    dirty,      \* the model's property "dirty"
    tabPath,    \* m_tabPaths of the loader for the model's tab, "" for none
    last        \* what the last step was and did

vars == <<rows, idx, disk, watch, valid, cIns, cChg, cRem, disabled, timer, ops,
          watcherPath, registered, dirty, tabPath, last>>

\* bounds of the model
MaxOps == 2

\* the watcher, its model and the directory as the record a pass works on
Watcher(ioFail) ==
    [rows |-> rows, idx |-> idx, disk |-> disk, watch |-> watch, valid |-> valid,
     cIns |-> cIns, cChg |-> cChg, cRem |-> cRem, disabled |-> disabled,
     ioFail |-> ioFail, mkFail |-> FALSE, slots |-> {}, wrote |-> {}, gone |-> {},
     dropped |-> {}, open |-> {}, failed |-> 0]

\* the watcher before its constructor body runs, for a model with the
\* given rows and a directory with the given files
NewWatcher(modelRows, files) ==
    [rows |-> modelRows, idx |-> [i \in 1..Len(modelRows) |-> EmptyStr],
     disk |-> files, watch |-> {}, valid |-> FALSE,
     cIns |-> 0, cChg |-> 0, cRem |-> FALSE, disabled |-> TRUE,
     ioFail |-> FALSE, mkFail |-> FALSE, slots |-> {}, wrote |-> {}, gone |-> {},
     dropped |-> {}, open |-> {}, failed |-> 0]

\* the end of createWatcherAndLoadItems: the model stays disabled when the
\* watcher is not valid
Loaded(w) == [w EXCEPT !.disabled = ~w.valid]

\* the end of the constructor: the rows it created are saved
Created(w) == Loaded(IF Len(w.rows) > 0 THEN saveItems(w, 1, Len(w.rows)) ELSE w)

\* FileWatcher::FileWatcher(path, paths, model, formatSettings, parent)
\* followed by the end of createWatcherAndLoadItems
FileWatcher(modelRows, files, paths) ==
    Created(createItemsFromFiles(
                connectModel(WatchAll(NewWatcher(modelRows, files), paths, 1)),
                listFiles(files, paths, formatSettings)))

\* the file-system signals a pass causes: directoryChanged when a file
\* appears or disappears, fileChanged when a watched file is written
Notifies(before, w) ==
    \/ FileNames(before) # FileNames(w.disk)
    \/ w.wrote \cap watch # {}

\* what `last` records of a step
Step(op, first, lastRow, pre, preDisk, w) ==
    [op |-> op, first |-> first, lastRow |-> lastRow, pre |-> pre,
     preDisk |-> preDisk, slots |-> w.slots, wrote |-> w.wrote, gone |-> w.gone,
     dropped |-> w.dropped, open |-> w.open, failed |-> w.failed,
     ioFail |-> w.ioFail, mkFail |-> w.mkFail,
     prevOp |-> last.op, prevPre |-> last.pre, prevAll |-> last.all,
     armed |-> timer, prevArmed |-> last.armed,
     all |-> op = "W" /\ w.valid /\ first = 1 /\ lastRow = Len(pre)]

\* the variables of the watcher and its model take the values of the
\* record w
Changes(w) ==
    /\ rows' = w.rows
    /\ idx' = w.idx
    /\ disk' = w.disk
    /\ watch' = w.watch
    /\ valid' = w.valid
    /\ cIns' = w.cIns
    /\ cChg' = w.cChg
    /\ cRem' = w.cRem
    /\ disabled' = w.disabled

\* the variables take the values of the record w after a pass
Commit(w) ==
    /\ Changes(w)
    /\ UNCHANGED <<watcherPath, registered, dirty, tabPath>>

(***************************************************************************)
(* Inputs                                                                  *)
(***************************************************************************)
f_txt == <<"f", ".", "t", "x", "t">>

\* a hidden file
h_txt == <<".", "h", ".", "t", "x", "t">>

\* the data a user puts into a row
UserData ==
    { {<<mimeText, Raw("a")>>},
      {<<mimeText, Raw("b")>>},
      {<<mimeText, Raw("HUGE")>>},
      {<<mimeCustom, Raw("a")>>},
      {<<"application/xml", Raw("a")>>, <<"text/xml", Raw("b")>>} }

\* the rows of the other tab, one for each file of otherDisk, as its
\* watcher loads them: the base name of a file of a user format is the
\* whole file name
otherRows ==
    { Item(<<"f">>, {<<mimeText, <<".", "t", "x", "t">> >>},
           {<<mimeText, Raw("b")>>}, {}, ""),
      Item(<<"g", ".", "c">>, {<<"x-user/c", EmptyStr>>},
           {<<"x-user/c", Raw("a")>>}, {}, "") }

\* the rows a user copies from the other tab and pastes
CopiedRows == {<<copyItem(otherPath, item)>> : item \in otherRows}

\* the rows a user inserts in one go
NewRows ==
    {<<Item(b, {}, d, {}, "")>> : b \in {EmptyStr, <<"f">>}, d \in UserData}
    \cup {<<Item(EmptyStr, {}, {<<mimeText, Raw("a")>>}, {}, ""),
            Item(EmptyStr, {}, {<<mimeCustom, Raw("a")>>}, {}, "")>>}
    \cup CopiedRows

\* the files other programs write into the directory
ExternalFiles ==
    { File(f_txt, Raw("a")), File(f_txt, Raw("b")), File(f_txt, Raw("HUGE")),
      File(<<"g", ".", "c">>, Raw("a")), File(<<"f", ".", "i">>, Raw("a")),
      File(h_txt, Raw("a")) }

\* what goes wrong in a pass: nothing, every QFile::open for writing, or
\* QDir::mkpath
Failures == {"none", "write", "mkpath"}

InitialDisks ==
    { << >>,
      <<File(f_txt, Raw("a"))>>,
      <<File(h_txt, Raw("b")), File(<<"f", ".", "i">>, Raw("a"))>>,
      <<File(f_txt, Raw("a")), File(<<"g", ".", "c">>, Raw("a")),
        File(<<"h", ".", "t", "x", "t">>, Raw("a")),
        File(<<"k", ".", "t", "x", "t">>, Raw("b"))>> }

(***************************************************************************)
(* Specification                                                           *)
(***************************************************************************)
\* the state after construction: d is the directory as it was found, w
\* the watcher after its constructor
Constructed(d, w) ==
    /\ rows = w.rows
    /\ idx = w.idx
    /\ disk = w.disk
    /\ watch = w.watch
    /\ valid = w.valid
    /\ cIns = w.cIns
    /\ cChg = w.cChg
    /\ cRem = w.cRem
    /\ disabled = w.disabled
    /\ timer = FALSE
    /\ ops = 0
    /\ watcherPath = m_path
    /\ tabPath = m_path
    /\ registered = TRUE
    /\ dirty = FALSE
    /\ last = [op |-> "new", first |-> 0, lastRow |-> 0, pre |-> << >>,
               preDisk |-> d, slots |-> w.slots, wrote |-> w.wrote,
               gone |-> w.gone, dropped |-> w.dropped, open |-> w.open,
               failed |-> w.failed, ioFail |-> FALSE, mkFail |-> FALSE,
               prevOp |-> "none",
               prevPre |-> << >>, prevAll |-> FALSE, all |-> FALSE,
               armed |-> FALSE, prevArmed |-> FALSE]

Init ==
    \E d \in InitialDisks : Constructed(d, FileWatcher(<< >>, d, entryList(d)))

\* the state after a slot of the watcher has run, or has not: w is the
\* watcher then, before the rows as the signal found them
Saved(op, before, first, lastRow, w) ==
    /\ Commit(w)
    /\ timer' = (timer \/ Notifies(disk, w))
    /\ last' = Step(op, first, lastRow, before, disk, w)

\* the model emits rowsInserted(first, last) or dataChanged for rows
\* first..lastRow of w.rows: the connected slot runs saveItems
Signal(connected, w, first, lastRow) ==
    Saved(IF connected THEN "W" ELSE "edit", w.rows, first, lastRow,
          IF connected THEN saveItems(w, first, lastRow) ELSE w)

\* mkpath(".") can only fail when the directory is not there, and then it
\* holds no files
MayFail(fail) == fail = "mkpath" => disk = << >>

\* the user adds rows on top of the model
RowsInserted ==
    \E items \in NewRows, fail \in Failures :
        /\ ops < MaxOps
        /\ Len(rows) + Len(items) <= maxItems
        /\ MayFail(fail)
        /\ ops' = ops + 1
        /\ LET w == [Watcher(fail = "write") EXCEPT !.mkFail = (fail = "mkpath")]
           IN  Signal(cIns > 0,
                      [w EXCEPT !.rows = items \o rows,
                                !.idx = [i \in 1..Len(items) |-> EmptyStr] \o idx],
                      1, Len(items))

\* the user edits the data of a row
DataChanged ==
    \E row \in 1..Len(rows), d \in UserData, fail \in Failures :
        /\ ops < MaxOps
        /\ MayFail(fail)
        /\ ops' = ops + 1
        /\ LET w == [Watcher(fail = "write") EXCEPT !.mkFail = (fail = "mkpath")]
           IN  Signal(cChg > 0, [w EXCEPT !.rows[row].data = d], row, row)

\* the state after a pass that sets no timer: w is the watcher then
Passed(op, first, lastRow, w) ==
    /\ Commit(w)
    /\ last' = Step(op, first, lastRow, rows, disk, w)

\* the user removes a row
RowsRemoved ==
    \E row \in 1..Len(rows) :
        /\ ops < MaxOps
        /\ ops' = ops + 1
        /\ Passed("remove", row, row, removeRow(Watcher(FALSE), row))
        /\ UNCHANGED timer

\* another program creates or rewrites a file of the directory
FileWritten ==
    \E f \in ExternalFiles :
        /\ ops < MaxOps
        /\ ~(Exists(disk, f.name) /\ ReadAll(disk, f.name) = f.bytes)
        /\ ops' = ops + 1
        /\ disk' = WriteFile(disk, f.name, f.bytes)
        /\ timer' = (timer \/ (registered /\ ~Exists(disk, f.name))
                          \/ f.name \in watch)
        /\ last' = Step("fs", 0, 0, rows, disk, Watcher(FALSE))
        /\ UNCHANGED <<rows, idx, watch, valid, cIns, cChg, cRem, disabled,
                       watcherPath, registered, dirty, tabPath>>

\* another program removes a file of the directory
FileRemoved ==
    \E name \in FileNames(disk) :
        /\ ops < MaxOps
        /\ ops' = ops + 1
        /\ disk' = RemoveFile(disk, name)
        /\ timer' = (timer \/ registered)
        /\ last' = Step("fs", 0, 0, rows, disk, Watcher(FALSE))
        /\ UNCHANGED <<rows, idx, watch, valid, cIns, cChg, cRem, disabled,
                       watcherPath, registered, dirty, tabPath>>

\* a timer that is not single-shot: it stays armed after it has fired
TimerFired_rearmed ==
    /\ timer
    /\ timer' = TRUE
    /\ Passed("R", 0, 0, updateItems(Watcher(FALSE)))
    /\ UNCHANGED ops

\* m_updateTimer times out: updateItems
TimerFired ==
    /\ timer
    /\ timer' = FALSE
    /\ Passed("R", 0, 0, updateItems(Watcher(FALSE)))
    /\ UNCHANGED ops

\* ItemSyncLoader::applySettings with unchanged settings: the watcher's
\* path is still the tab's path, so updateItems runs
SettingsApplied ==
    /\ registered
    /\ watcherPath = tabPath
    /\ ops < MaxOps
    /\ ops' = ops + 1
    /\ Passed("R", 0, 0, updateItems(Watcher(FALSE)))
    /\ UNCHANGED timer

Next ==
    \/ RowsInserted
    \/ DataChanged
    \/ RowsRemoved
    \/ FileWritten
    \/ FileRemoved
    \/ TimerFired
    \/ SettingsApplied

Spec == Init /\ [][Next]_vars

\* the single-shot m_updateTimer emits timeout(): the step TimerFired is the
\* slot connected to it, and no other step disarms the timer
Timeout == timer /\ timer' = FALSE

\* the event loop delivers the timeout of an armed m_updateTimer
LiveSpec == Spec /\ WF_timer(Timeout)

(***************************************************************************)
(* Saving a tab: ItemSyncLoader::saveItems applied to every watcher state  *)
(***************************************************************************)
\* rows as a tab holds them after a pass: a base name and an extension map
SavedItems ==
    {Item(b, e, {<<p[1], Raw("a")>> : p \in e}, {}, "") :
        b \in {<<"f">>, <<"g">>},
        e \in {{}, {<<mimeText, <<".", "t", "x", "t">> >>},
               {<<"application/xml", <<".", "x", "m", "l">> >>,
                <<"text/xml", <<".", "x", "m", "l">> >>}}}

SavedTabs ==
    {<< >>} \cup {<<a>> : a \in SavedItems}
            \cup {<<a, b>> : a \in SavedItems, b \in SavedItems}

SaveInit ==
    /\ rows \in SavedTabs
    /\ idx = [i \in 1..Len(rows) |-> rows[i].base]
    /\ watcherPath \in {"", m_path}
    /\ tabPath = watcherPath
    /\ registered \in BOOLEAN
    /\ valid \in BOOLEAN
    /\ disk = << >>
    /\ watch = {}
    /\ cIns = 0
    /\ cChg = 0
    /\ cRem = FALSE
    /\ disabled = FALSE
    /\ dirty = FALSE
    /\ timer = FALSE
    /\ ops = 0
    /\ last = [op |-> "none"]

\* the host saves the tab
SaveTab ==
    /\ ops < 1
    /\ ops' = ops + 1
    /\ last' = [op |-> "save"] @@ saveTab(registered, watcherPath, valid, rows)
    /\ UNCHANGED <<rows, idx, disk, watch, valid, cIns, cChg, cRem, disabled,
                   timer, watcherPath, registered, dirty, tabPath>>

SaveNext == SaveTab

SaveSpec == SaveInit /\ [][SaveNext]_vars

(***************************************************************************)
(* The allocator alone: ::renameToUnique called again and again on one     *)
(* list of used names                                                      *)
(***************************************************************************)
MaxCalls == 3

\* names that callers propose
ProposedNames ==
    { EmptyStr,
      <<"f">>,
      <<"f", ".", "t", "x", "t">>,
      <<"f", "0", "0", "1", ".", "t", "x", "t">>,
      <<"f", "9", ".", "t", "x", "t">>,
      <<"f", ".", ".", "t", "x", "t">>,
      <<"g", ".", "c">>,
      <<"/", "x">>,
      <<"a", "9", "9", "9", "9", "8">>,
      <<"a", "9", "9", "9", "9", "9">>,
      <<"9", "9", "9", "9", "9", "9", "9", "9", "9", "9">> }

AllocInit ==
    /\ rows = << >>
    /\ idx = << >>
    /\ disk = << >>
    /\ watch = {}
    /\ valid = FALSE
    /\ cIns = 0
    /\ cChg = 0
    /\ cRem = FALSE
    /\ disabled = FALSE
    /\ dirty = FALSE
    /\ timer = FALSE
    /\ registered = FALSE
    /\ watcherPath = ""
    /\ tabPath = ""
    /\ ops = 0
    /\ last = [op |-> "none", name |-> EmptyStr, before |-> << >>,
               ok |-> TRUE, result |-> EmptyStr, usedNames |-> << >>]

\* what a call leaves: r is what renameToUnique returned
Allocated(name, r) ==
    last' = [op |-> "alloc", name |-> name, before |-> last.usedNames,
             ok |-> r.ok, result |-> r.name, usedNames |-> r.usedNames]

\* one call of ::renameToUnique(&name, &usedNames, formatSettings)
Allocate ==
    \E name \in ProposedNames :
        /\ ops < MaxCalls
        /\ ops' = ops + 1
        /\ Allocated(name, renameToUnique(name, last.usedNames, formatSettings))
        /\ UNCHANGED <<rows, idx, disk, watch, valid, cIns, cChg, cRem, disabled,
                       timer, watcherPath, registered, dirty, tabPath>>

AllocNext == Allocate

AllocSpec == AllocInit /\ [][AllocNext]_vars

(***************************************************************************)
(* Removal by the user: ItemSyncLoader::itemsRemovedByUser applied to the  *)
(* rows of a tab.  A base name is on two rows while an item is being moved *)
(***************************************************************************)
\* the files of the rows rs from row k on, added to the directory d
RECURSIVE DiskOf(_, _, _)
DiskOf(rs, k, d) ==
    IF k > Len(rs) THEN d
    ELSE LET keys == SortedKeys(rs[k].extmap)
             names == [n \in 1..Len(keys) |->
                          rs[k].base \o Value(rs[k].extmap, keys[n])]
             new == SelectSeq(names, LAMBDA x : ~Exists(d, x))
         IN  DiskOf(rs, k + 1,
                    d \o [n \in 1..Len(new) |-> File(new[n], Raw("a"))])

RemoveInit ==
    /\ rows \in SavedTabs
    /\ idx = [i \in 1..Len(rows) |-> rows[i].base]
    /\ disk \in {DiskOf(rows, 1, << >>), DiskOf(rows, 2, << >>)}
    /\ watcherPath \in {"", m_path}
    /\ tabPath = watcherPath
    /\ registered = (watcherPath # "")
    /\ valid \in BOOLEAN
    /\ watch = FileNames(disk)
    /\ cIns = (IF valid THEN 1 ELSE 0)
    /\ cChg = (IF valid THEN 1 ELSE 0)
    /\ cRem = registered
    /\ disabled = FALSE
    /\ dirty = FALSE
    /\ timer = FALSE
    /\ ops = 0
    /\ last = [op |-> "none", first |-> 0, lastRow |-> 0, pre |-> << >>,
               preDisk |-> disk, slots |-> {}, wrote |-> {}, gone |-> {},
               dropped |-> {}, open |-> {}, failed |-> 0, ioFail |-> FALSE,
               mkFail |-> FALSE, prevOp |-> "none", prevPre |-> << >>,
               prevAll |-> FALSE, all |-> FALSE,
               armed |-> FALSE, prevArmed |-> FALSE]

\* the user removes the rows first..lastRow: the host tells the loader
\* while the rows are still in the model
ItemsRemovedByUser ==
    \E first \in 1..Len(rows), lastRow \in 1..Len(rows) :
        /\ first <= lastRow
        /\ ops < 1
        /\ ops' = ops + 1
        /\ Saved("removedByUser", rows, first, lastRow,
                 itemsRemovedByUser(Watcher(FALSE), watcherPath, first, lastRow))

RemoveNext == ItemsRemovedByUser

RemoveSpec == RemoveInit /\ [][RemoveNext]_vars

(***************************************************************************)
(* The W pass of an edit, as a function of the row and the new data: the   *)
(* tab holds rows that were saved before, each with its files              *)
(***************************************************************************)
\* rows as a W pass has left them, with the data their files hold
EditedItems ==
    {Item(b, e, {<<p[1], Raw("a")>> : p \in e}, {}, "") :
        b \in {<<"f">>, <<"g">>},
        e \in {{<<mimeText, <<".", "t", "x", "t">> >>},
               {<<"application/xml", <<".", "x", "m", "l">> >>},
               {<<mimeText, <<".", "t", "x", "t">> >>,
                <<mimeHtml, <<".", "h", "t", "m", "l">> >>}}}

EditedTabs ==
    {<<a>> : a \in EditedItems}
        \cup {<<a, b>> : a \in {x \in EditedItems : x.base = <<"f">>},
                         b \in {x \in EditedItems : x.base = <<"g">>}}

\* the data an edit gives a row
EditData ==
    { {<<mimeText, Raw("a")>>},
      {<<mimeText, Raw("b")>>},
      {<<mimeHtml, Raw("a")>>},
      {<<"text/xml", Raw("a")>>},
      {<<"text/xml", Raw("b")>>},
      {<<"application/xml", Raw("b")>>},
      {<<mimeCustom, Raw("a")>>} }

EditInit ==
    /\ rows \in EditedTabs
    /\ idx = [i \in 1..Len(rows) |-> rows[i].base]
    /\ disk = DiskOf(rows, 1, << >>)
    /\ watcherPath = m_path
    /\ tabPath = m_path
    /\ registered = TRUE
    /\ valid = TRUE
    /\ watch = FileNames(disk)
    /\ cIns = 1
    /\ cChg = 1
    /\ cRem = TRUE
    /\ disabled = FALSE
    /\ dirty = FALSE
    /\ timer = FALSE
    /\ ops = 0
    /\ last = [op |-> "none", first |-> 0, lastRow |-> 0, pre |-> << >>,
               preDisk |-> disk, slots |-> {}, wrote |-> {}, gone |-> {},
               dropped |-> {}, open |-> {}, failed |-> 0, ioFail |-> FALSE,
               mkFail |-> FALSE, prevOp |-> "none", prevPre |-> << >>,
               prevAll |-> FALSE, all |-> FALSE,
               armed |-> FALSE, prevArmed |-> FALSE]

\* the user edits the data of a row: dataChanged, onDataChanged, saveItems
RowEdited ==
    \E row \in 1..Len(rows), d \in EditData, ioFail \in BOOLEAN :
        /\ ops < MaxOps
        /\ ops' = ops + 1
        /\ Signal(cChg > 0, [Watcher(ioFail) EXCEPT !.rows[row].data = d], row, row)

EditNext == RowEdited

EditSpec == EditInit /\ [][EditNext]_vars

(***************************************************************************)
(* The loader and one tab: the user changes the tab's path in the          *)
(* settings, the host unloads the tab's model and loads it again           *)
(***************************************************************************)
\* the paths a tab has in sync_tabs: none, the watcher's, another one
TabPaths == {"", m_path, otherPath}

\* a loop that runs updateItems for every watcher
applySettings_all(w, hasWatcher, path, newTabPath) ==
    IF hasWatcher THEN [ran |-> TRUE, w |-> updateItems(w)]
    ELSE [ran |-> FALSE, w |-> w]

\* the loop at the end of applySettings, for the watcher of the model if
\* m_watchers holds one: updateItems when its path is the tab's new path
applySettings(w, hasWatcher, path, newTabPath) ==
    IF hasWatcher /\ path = newTabPath
    THEN [ran |-> TRUE, w |-> updateItems(w)]
    ELSE [ran |-> FALSE, w |-> w]

\* a removeModel that takes the watcher out of m_watchers and leaves it
\* alive
deleteWatcher_leaked(w) == w

\* delete of the watcher: its connections to the model, its index map and
\* its QFileSystemWatcher go with it
deleteWatcher(w) ==
    [w EXCEPT !.valid = FALSE, !.cIns = 0, !.cChg = 0, !.cRem = FALSE,
              !.watch = {}, !.idx = [i \in 1..Len(w.rows) |-> EmptyStr]]

LoaderInit ==
    Constructed(<<File(f_txt, Raw("a"))>>,
                FileWatcher(<< >>, <<File(f_txt, Raw("a"))>>,
                            entryList(<<File(f_txt, Raw("a"))>>)))

\* ItemSyncLoader::applySettings with another path for the tab
PathApplied ==
    \E p \in TabPaths :
        /\ p # tabPath
        /\ ops < MaxOps
        /\ ops' = ops + 1
        /\ tabPath' = p
        /\ LET r == applySettings(Watcher(FALSE), registered, watcherPath, p)
           IN  /\ Changes(r.w)
               /\ last' = [Step("settings", 0, 0, rows, disk, r.w)
                              EXCEPT !.op = IF r.ran THEN "applyR" ELSE "settings"]
        /\ UNCHANGED <<timer, watcherPath, registered, dirty>>

\* the model emits unloaded() or destroyed(): ItemSyncLoader::removeModel
ModelUnloaded ==
    /\ registered
    /\ ops < MaxOps
    /\ ops' = ops + 1
    /\ Changes(deleteWatcher(Watcher(FALSE)))
    /\ registered' = FALSE
    /\ watcherPath' = ""
    /\ timer' = FALSE
    /\ last' = Step("unloaded", 0, 0, rows, disk, Watcher(FALSE))
    /\ UNCHANGED <<dirty, tabPath>>

\* the host loads the tab again into an empty model: loadItems calls
\* createWatcherAndLoadItems when the tab has a path; the directory of the
\* model is that of m_path
ModelLoaded ==
    /\ ~registered
    /\ tabPath = m_path
    /\ ops < MaxOps
    /\ ops' = ops + 1
    /\ Changes(FileWatcher(<< >>, disk, entryList(disk)))
    /\ registered' = TRUE
    /\ watcherPath' = tabPath
    /\ timer' = FALSE
    /\ last' = Step("new", 0, 0, << >>, disk,
                    FileWatcher(<< >>, disk, entryList(disk)))
    /\ UNCHANGED <<dirty, tabPath>>

LoaderNext == Next \/ PathApplied \/ ModelUnloaded \/ ModelLoaded

LoaderSpec == LoaderInit /\ [][LoaderNext]_vars

(***************************************************************************)
(* Loading a tab that is synchronized no more: the tab's file carries the  *)
(* header and the list of saved files, and m_tabPaths has no path for it   *)
(***************************************************************************)
\* format.startsWith(MIME_PREFIX), for the keys of the data of a row
HasMimePrefix(format) == format = mimeItemNotes

\* containsUserData(dataMap): the four keys of the synchronization all
\* begin with MIME_PREFIX
containsUserData(item) == \E p \in item.data : ~HasMimePrefix(p[1])

\* the loop of itemsLoaded that removes the empty items, from row i on
RECURSIVE RemoveEmptyItems(_, _)

\* a loop that goes on to row i + 1 after it has removed row i
RemoveEmptyItems_skipsNext(rs, i) ==
    IF i > Len(rs) THEN rs
    ELSE IF containsUserData(rs[i]) THEN RemoveEmptyItems(rs, i + 1)
    ELSE RemoveEmptyItems(RemoveAt(rs, i), i + 1)

RemoveEmptyItems(rs, i) ==
    IF i > Len(rs) THEN rs
    ELSE IF containsUserData(rs[i]) THEN RemoveEmptyItems(rs, i + 1)
    ELSE RemoveEmptyItems(RemoveAt(rs, i), i)

\* files of a directory that was synchronized
SyncedFiles ==
    { File(f_txt, Raw("a")), File(f_txt, Raw("HUGE")),
      File(<<"g", ".", "c">>, Raw("a")),
      File(<<"h", "_", "n", "o", "t", "e", ".", "t", "x", "t">>, Raw("a")),
      File(<<"k">> \o dataFileSuffix, serializeData({<<mimeCustom, Raw("a")>>})),
      File(<<"_", "n", "o", "t", "e", ".", "t", "x", "t">>, Raw("a")) }

SyncedDisks ==
    {<< >>} \cup {<<a>> : a \in SyncedFiles}
            \cup {d \in {<<a, b>> : a \in SyncedFiles, b \in SyncedFiles} :
                      d[1].name # d[2].name}

\* the saved files of the tab's configuration: the files of the directory,
\* none of them, or all but the oldest
SavedFileLists(d) == {entryList(d), << >>} \cup (IF d = << >> THEN {} ELSE {entryList(Tail(d))})

UnsyncInit ==
    /\ disk \in SyncedDisks
    /\ rows = << >>
    /\ idx = << >>
    /\ watch = {}
    /\ valid = FALSE
    /\ cIns = 0
    /\ cChg = 0
    /\ cRem = FALSE
    /\ disabled = FALSE
    /\ timer = FALSE
    /\ ops = 0
    /\ watcherPath = ""
    /\ tabPath = ""
    /\ registered = FALSE
    /\ dirty = FALSE
    /\ \E files \in SavedFileLists(disk) :
          last = [op |-> "file", files |-> files, preDisk |-> disk, pre |-> << >>,
                  gone |-> {}]

\* createWatcher(model, dir.path(), files) in loadItems: w is the watcher
\* after its constructor
WatcherCreated(w) ==
    /\ rows' = w.rows
    /\ idx' = w.idx
    /\ disk' = w.disk
    /\ watch' = w.watch
    /\ valid' = w.valid
    /\ cIns' = w.cIns
    /\ cChg' = w.cChg
    /\ cRem' = w.cRem
    /\ timer' = Notifies(disk, w)
    /\ watcherPath' = m_path
    /\ registered' = TRUE
    /\ last' = [last EXCEPT !.op = "loadItems", !.gone = w.gone]

\* ItemSyncLoader::loadItems for a tab that shouldSyncTab does not know
LoadItems ==
    /\ last.op = "file"
    /\ ops' = ops + 1
    /\ UNCHANGED <<disabled, dirty, tabPath>>
    /\ IF last.files # << >>
       THEN WatcherCreated(Created(createItemsFromFiles(
                connectModel(WatchAll(NewWatcher(<< >>, disk), last.files, 1)),
                listFiles(disk, last.files, formatSettings))))
       ELSE /\ last' = [last EXCEPT !.op = "loadItems"]
            /\ UNCHANGED <<rows, idx, disk, watch, valid, cIns, cChg, cRem,
                           timer, watcherPath, registered>>

\* ItemSyncLoader::itemsLoaded: the header says synchronized, shouldSyncTab
\* says no; the watcher is deleted and with it its connections, its timer
\* and its watched paths
ItemsLoaded ==
    /\ last.op = "loadItems"
    /\ ops' = ops + 1
    /\ dirty' = TRUE
    /\ registered' = FALSE
    /\ watcherPath' = ""
    /\ valid' = FALSE
    /\ cIns' = 0
    /\ cChg' = 0
    /\ cRem' = FALSE
    /\ watch' = {}
    /\ timer' = FALSE
    /\ rows' = RemoveEmptyItems(rows, 1)
    /\ idx' = [i \in 1..Len(rows') |-> EmptyStr]
    /\ last' = [last EXCEPT !.op = "itemsLoaded", !.pre = rows]
    /\ UNCHANGED <<disk, disabled, tabPath>>

UnsyncNext == LoadItems \/ ItemsLoaded

UnsyncSpec == UnsyncInit /\ [][UnsyncNext]_vars

(***************************************************************************)
(* Properties                                                              *)
(***************************************************************************)
UniqueBaseNames(rs) ==
    \A i, j \in 1..Len(rs) : i # j => rs[i].base # rs[j].base

\* C1: whenever the watcher is valid (every pass so far has completed and
\* the model's signals are connected), no two rows carry the same base name.
C1_UniqueBaseNames == valid => UniqueBaseNames(rows)

\* a W pass has completed that had to give a new row a fresh name beside f
C1_Witness ==
    /\ valid
    /\ last.op = "W"
    /\ \E i, j \in 1..Len(rows) :
          rows[i].base = <<"f", "-", "1">> /\ rows[j].base = <<"f">>

\* without the condition: an aborted pass leaves rows with equal base names
C1_AlwaysUnique == UniqueBaseNames(rows)

\* the rows as a bag of user data, which ignores the order of the rows
SameItems(a, b) ==
    \A d \in {a[i].data : i \in 1..Len(a)} \cup {b[i].data : i \in 1..Len(b)} :
        Cardinality({i \in 1..Len(a) : a[i].data = d})
            = Cardinality({i \in 1..Len(b) : b[i].data = d})

\* C2: when direction W has run on all rows and direction R runs next, the
\* rows hold the same user data (MIME keys and payloads) as before W.
C2_RoundTrip ==
    (last.op = "R" /\ last.prevOp = "W" /\ last.prevAll)
        => SameItems(last.prevPre, rows)

\* C3: the model changes a pass makes itself invoke no slot of the watcher
\* that would start direction W (onRowsInserted, onDataChanged).
C3_NoFeedback == last.slots = {}

\* a W pass has changed rows, and an R pass has inserted a row
C3_Witness ==
    /\ last.op = "R"
    /\ Len(rows) > Len(last.pre)
    /\ last.prevOp = "W"
    /\ last.pre # last.prevPre

\* the files of an item: <base><ext> for every entry of its extension map
ItemFiles(item) == {item.base \o p[2] : p \in item.extmap}

\* C4: direction R removes a row only when none of the item's files is in
\* the directory any more.
C4_RemovedOnlyWithoutFiles ==
    last.op = "R" =>
        \A item \in last.dropped : ItemFiles(item) \cap FileNames(disk) = {}

\* the MIME keys and payloads a sidecar file holds
SidecarMap(d, base) ==
    IF Exists(d, base \o dataFileSuffix)
       /\ deserializeData({}, ReadAll(d, base \o dataFileSuffix)).ok
    THEN deserializeData({}, ReadAll(d, base \o dataFileSuffix)).data
    ELSE {}

\* the payload of MIME m of the item is in its own file or in the sidecar
Stored(d, item, m) ==
    \/ /\ Contains(item.extmap, m)
       /\ Exists(d, item.base \o Value(item.extmap, m))
       /\ ReadAll(d, item.base \o Value(item.extmap, m)) = Value(item.data, m)
    \/ <<m, Value(item.data, m)>> \in SidecarMap(d, item.base)

\* C5: after a W pass that succeeded, every user payload of every row of
\* the pass is in its own file or in the row's sidecar.
C5_PayloadsStored ==
    (last.op = "W" /\ valid) =>
        \A row \in last.first..last.lastRow :
            \A m \in Keys(rows[row].data) : Stored(disk, rows[row], m)

\* the files of the directory that the scan lists under a base name
Recognized(d) ==
    {n \in FileNames(d) : ~ClassifyFile(d, n, formatSettings).skip}

\* the extension the scan finds for a file, and the stem before it
ExtensionOf(d, n) == ClassifyFile(d, n, formatSettings).ext.extension

StemOf(d, n) == Left(n, Len(n) - Len(ExtensionOf(d, n)))

\* exactly one row has the file's stem as base name and the file's
\* extension in its extension map
Reflected(d, rs, n) ==
    Cardinality({i \in 1..Len(rs) :
                    /\ rs[i].base = StemOf(d, n)
                    /\ \E p \in rs[i].extmap : p[2] = ExtensionOf(d, n)}) = 1

\* the R pass inserted a row and ended with maxItems rows or more: the
\* row cap may have stopped it before the last bucket
StoppedAtCap ==
    /\ Len(rows) >= maxItems
    /\ \E i \in 1..Len(rows) :
          \A j \in 1..Len(last.pre) : rows[i].base # last.pre[j].base

\* C6 as stated: after an R pass every recognized file is reflected by
\* exactly one row.
C6_EveryFileReflected ==
    last.op = "R" => \A n \in Recognized(disk) : Reflected(disk, rows, n)

\* C6: after an R pass that the row cap did not stop, every recognized file
\* of at most sizeLimit bytes is reflected by exactly one row, whose base
\* name is the file's stem and whose extension map has the file's extension.
C6_FileReflectedBelowCap ==
    (last.op = "R" /\ ~StoppedAtCap) =>
        \A n \in Recognized(disk) :
            Size(ReadAll(disk, n)) <= sizeLimit => Reflected(disk, rows, n)

\* an R pass below the cap has created a row for a file of the directory
C6_Witness ==
    /\ last.op = "R"
    /\ ~StoppedAtCap
    /\ Len(rows) > Len(last.pre)
    /\ \E n \in Recognized(disk) :
          Size(ReadAll(disk, n)) <= sizeLimit /\ Reflected(disk, rows, n)

\* the MIME has no extension in the built-in table
NoExtension(m) ==
    \A i \in 1..Len(fileExtensionsAndFormats) :
        fileExtensionsAndFormats[i].format # m

\* C7: when W has written all rows and R runs next, every payload of a MIME
\* without extension mapping was put into <base>_copyq.dat by W and is in a
\* row with the same bytes after R.
C7_SidecarRecovered ==
    (last.op = "R" /\ last.prevOp = "W" /\ last.prevAll) =>
        \A i \in 1..Len(last.pre) :
            \A m \in Keys(last.pre[i].data) :
                NoExtension(m) =>
                    /\ <<m, Value(last.pre[i].data, m)>>
                           \in SidecarMap(last.preDisk, last.pre[i].base)
                    /\ \E j \in 1..Len(rows) :
                          <<m, Value(last.pre[i].data, m)>> \in rows[j].data

\* the (row, MIME) pairs of the W pass whose file is the given path
WritersOf(path) ==
    {x \in (last.first..last.lastRow)
             \X UNION {Keys(rows[i].extmap) : i \in 1..Len(rows)} :
        /\ Contains(rows[x[1]].extmap, x[2])
        /\ Contains(rows[x[1]].data, x[2])
        /\ rows[x[1]].base \o Value(rows[x[1]].extmap, x[2]) = path}

\* the file of MIME m of the row held the row's payload when the pass began
SavedBefore(row, m) ==
    /\ Contains(rows[row].data, m)
    /\ Exists(last.preDisk, rows[row].base \o Value(rows[row].extmap, m))
    /\ ReadAll(last.preDisk, rows[row].base \o Value(rows[row].extmap, m))
           = Value(rows[row].data, m)

\* C8 as stated: a W pass does not write a file that already held the
\* payload of its MIME when the pass began.
C8_NoWriteWhenEqual ==
    last.op = "W" =>
        \A row \in last.first..last.lastRow :
            \A p \in rows[row].extmap :
                SavedBefore(row, p[1])
                    => rows[row].base \o p[2] \notin last.wrote

\* C8: a W pass does not write a file that already held the payload of its
\* MIME when the pass began, when the payload has at most sizeLimit bytes
\* and no other MIME of the rows of the pass is saved in the same file.
C8_HashElision ==
    last.op = "W" =>
        \A row \in last.first..last.lastRow :
            \A p \in rows[row].extmap :
                ( /\ SavedBefore(row, p[1])
                  /\ Size(Value(rows[row].data, p[1])) <= sizeLimit
                  /\ WritersOf(rows[row].base \o p[2]) = {<<row, p[1]>>} )
                    => rows[row].base \o p[2] \notin last.wrote

\* a W pass has met a file that held the payload already and left it alone
C8_Witness ==
    /\ last.op = "W"
    /\ valid
    /\ \E row \in last.first..last.lastRow :
          \E p \in rows[row].extmap :
              /\ SavedBefore(row, p[1])
              /\ Size(Value(rows[row].data, p[1])) <= sizeLimit
              /\ WritersOf(rows[row].base \o p[2]) = {<<row, p[1]>>}
              /\ rows[row].base \o p[2] \notin last.wrote

\* C9: an R pass that follows an R pass with nothing in between leaves the
\* rows as the first pass left them.
C9_Idempotent ==
    (last.op = "R" /\ last.prevOp = "R") => rows = last.pre

C11_ConnectedOnlyWhileValid ==
    ~valid => (cIns = 0 /\ cChg = 0 /\ ~cRem)

\* a pass that was not cut short by a failed write, a failed mkpath or an
\* exhausted name counter
Completed ==
    \/ last.op = "R"
    \/ last.op = "W" /\ valid

\* C12: every R pass and every W pass touches the model and the disk only
\* while m_valid is false and the model's property "disabled" is true, and
\* when it completes the signals are connected again, m_valid is true and
\* "disabled" is false.
C12_PassGuarded ==
    last.op \in {"R", "W"} =>
        /\ last.open = {}
        /\ Completed => (valid /\ ~disabled /\ cIns > 0 /\ cChg > 0 /\ cRem)

\* C13: when a write fails in a W pass, the rows of the batch after the
\* failing row are as they were before the pass and none of their files was
\* written, renamed or removed, m_valid is false, and saving the tab fails.
C13_AbortLeavesRest ==
    (last.op = "W" /\ last.failed > 0) =>
        /\ \A row \in (last.failed + 1)..last.lastRow :
              /\ rows[row] = last.pre[row]
              /\ ItemFiles(last.pre[row]) \cap (last.wrote \cup last.gone) = {}
        /\ ~valid
        /\ ~saveTab(registered, watcherPath, valid, rows).ok

\* C14: when the target directory cannot be created in a W pass, the pass
\* ends with m_valid false and the model exactly as it was before the pass.
C14_NoDirNoChange ==
    (last.op = "W" /\ last.mkFail) => (~valid /\ rows = last.pre)

\* a step of ItemSyncLoader::applySettings, which reconfigures the tab
Reconfigured == last'.op = "R" /\ ops' # ops

\* C15: once a pass has aborted, the watcher stays invalid and saving the tab
\* keeps failing through every model event, file-system event and timer
\* fire; only reconfiguring the tab may end this.
C15_StaysInvalid ==
    [][(~valid /\ ~Reconfigured) =>
           (~valid' /\ ~saveTab(registered', watcherPath', valid', rows').ok)]_vars

\* every <base><ext> of every row
AllRowFiles ==
    {rows[i].base \o e[2] : <<i, e>> \in
        {<<i, e>> \in (1..Len(rows)) \X
             UNION {rows[i].extmap : i \in 1..Len(rows)} : e \in rows[i].extmap}}

FsSignal ==
    /\ last'.op = "fs"
    /\ \/ FileNames(disk') # FileNames(disk)
       \/ \E name \in watch :
             /\ Exists(disk, name)
             /\ Exists(disk', name)
             /\ ReadAll(disk', name) # ReadAll(disk, name)

\* every signal of the file system arms the timer
SignalArmsTimer == [][FsSignal => timer']_vars

\* C17 as stated: an R pass runs only when the timer fires, and the fire
\* disarms the timer, so that a burst of events gives one pass
C17_OnlyOnTimer ==
    /\ SignalArmsTimer
    /\ [][last'.op = "R" => (~Reconfigured /\ timer /\ ~timer')]_vars
    /\ timer ~> (last.op = "R" /\ ~timer)

\* C17: every signal of the file system arms the single-shot timer; an R
\* pass runs only when the armed timer fires or when the settings are
\* applied; a fire disarms the timer, so a burst of events gives one pass
\* after its last event; and an armed timer is eventually followed by an R
\* pass.
C17_Debounce ==
    /\ SignalArmsTimer
    /\ [][last'.op = "R" => (Reconfigured \/ (timer /\ ~timer'))]_vars
    /\ timer ~> (last.op = "R" /\ ~timer)

\* two files appeared in an empty directory one after the other, and the one
\* pass after them created both rows
C17_Witness ==
    /\ last.op = "R"
    /\ last.prevOp = "fs"
    /\ ops = 2
    /\ ~timer
    /\ last.pre = << >>
    /\ Len(last.preDisk) = 2
    /\ Len(rows) = 2

\* the MIME type the scan gives a file
FormatOf(d, n) == ClassifyFile(d, n, formatSettings).ext.format

\* the file belongs to a row: the row has the file's stem as base name and
\* the file's extension in its extension map
BelongsTo(d, item, n) ==
    /\ item.base = StemOf(d, n)
    /\ \E p \in item.extmap : p[2] = ExtensionOf(d, n)

\* the files of the directory before the pass that belong to a row
RowFilesBefore ==
    {n \in Recognized(last.preDisk) :
        \E i \in 1..Len(last.pre) : BelongsTo(last.preDisk, last.pre[i], n)}

\* the row of that base name carries the file's content under the file's MIME
Carries(n) ==
    \E i \in 1..Len(rows) :
        /\ rows[i].base = StemOf(last.preDisk, n)
        /\ <<FormatOf(last.preDisk, n), ReadAll(last.preDisk, n)>> \in rows[i].data

\* the pass left the directory alone
ReadOnlyPass ==
    /\ last.wrote = {}
    /\ last.gone = {}
    /\ disk = last.preDisk

\* C18 as stated: after an R pass every file that belongs to a row has its
\* content in the row under the file's MIME, and the pass wrote, renamed and
\* removed no file.
C18_EditLoaded ==
    last.op = "R" =>
        /\ \A n \in RowFilesBefore : Carries(n)
        /\ ReadOnlyPass

\* C18: after an R pass every file of at most sizeLimit bytes that belongs
\* to a row has its content in the row under the file's MIME, and the pass
\* wrote, renamed and removed no file.
C18_SmallEditLoaded ==
    last.op = "R" =>
        /\ \A n \in RowFilesBefore :
              Size(ReadAll(last.preDisk, n)) <= sizeLimit => Carries(n)
        /\ ReadOnlyPass

\* the timer fired after another program changed a file of a row, and the
\* row now carries the content it did not carry before
C18_Witness ==
    /\ last.op = "R"
    /\ last.prevOp = "fs"
    /\ \E n \in RowFilesBefore, i \in 1..Len(last.pre) :
          /\ BelongsTo(last.preDisk, last.pre[i], n)
          /\ <<FormatOf(last.preDisk, n), ReadAll(last.preDisk, n)>>
                 \notin last.pre[i].data
          /\ Size(ReadAll(last.preDisk, n)) <= sizeLimit
          /\ Carries(n)

\* the rows of the batch that came from the other tab
CopiedInBatch ==
    {i \in last.first..last.lastRow : last.pre[i].syncpath = otherPath}

\* every file of the copied item that the other tab has is in the directory
\* under the row's base name, with the content it has in the other tab
FilesCopied(i) ==
    \A p \in last.pre[i].extmap :
        Exists(otherDisk, last.pre[i].base \o p[2]) =>
            /\ Exists(disk, rows[i].base \o p[2])
            /\ ReadAll(disk, rows[i].base \o p[2])
                   = ReadAll(otherDisk, last.pre[i].base \o p[2])

\* what the item carried under a MIME whose sys:nosave entry is the hash of
\* the payload
NoSavePayloads(item) ==
    {p \in item.data :
        /\ Contains(item.nosave, p[1])
        /\ Value(item.nosave, p[1]) = calculateHash(p[2])}

\* the payloads that must not be saved are gone from the row and in no file
NoSaveDropped(i) ==
    \A p \in NoSavePayloads(last.pre[i]) :
        /\ ~Contains(rows[i].data, p[1])
        /\ \A k \in 1..Len(disk) : disk[k].bytes # p[2]

\* C19: after a completed W pass over an item copied from the other tab the
\* item's files are in the directory with the content of the source files,
\* the payloads matching sys:nosave are dropped and written nowhere, and no
\* row of the batch carries a payload together with a matching sys:nosave.
C19_CrossTabCopy ==
    (last.op = "W" /\ valid) =>
        /\ \A i \in CopiedInBatch : FilesCopied(i) /\ NoSaveDropped(i)
        /\ \A i \in last.first..last.lastRow : NoSavePayloads(rows[i]) = {}

\* a copied item was saved: it had a file to copy and a payload not to save
C19_Witness ==
    /\ last.op = "W"
    /\ valid
    /\ \E i \in CopiedInBatch :
          /\ NoSavePayloads(last.pre[i]) # {}
          /\ \E p \in last.pre[i].extmap :
                Exists(otherDisk, last.pre[i].base \o p[2])
          /\ FilesCopied(i)

\* the rows of rs that carry a payload under a key outside the reserved
\* namespace, in their order
WithUserData(rs) ==
    SelectSeq(rs, LAMBDA item : \E p \in item.data : ~HasMimePrefix(p[1]))

CarriedByOther(i) ==
    \E j \in 1..Len(last.pre) : j # i /\ last.pre[j].base = last.pre[i].base

\* C21: after the user removed rows of a tab with a path, every file of the
\* extension map of a removed item is gone when no other row carried the
\* item's base name, and none of them was removed when another row did.
C21_UserRemoval ==
    (last.op = "removedByUser" /\ watcherPath # "") =>
        \A i \in last.first..last.lastRow :
            IF CarriedByOther(i)
            THEN \A j \in 1..Len(last.pre) :
                    last.pre[j].base = last.pre[i].base =>
                        ItemFiles(last.pre[j]) \cap last.gone = {}
            ELSE ItemFiles(last.pre[i]) \cap FileNames(disk) = {}

\* the user removed a row that had its base name alone, and its file is gone
C21_Witness ==
    /\ last.op = "removedByUser"
    /\ watcherPath # ""
    /\ \E i \in last.first..last.lastRow :
          /\ ~CarriedByOther(i)
          /\ ItemFiles(last.pre[i]) \cap FileNames(last.preDisk) # {}
          /\ ItemFiles(last.pre[i]) \cap FileNames(disk) = {}

\* the user removed a row whose base name another row carries: the item
\* was moved, and its file is still there
C21_MovedWitness ==
    /\ last.op = "removedByUser"
    /\ watcherPath # ""
    /\ \E i \in last.first..last.lastRow :
          /\ CarriedByOther(i)
          /\ ItemFiles(last.pre[i]) \cap FileNames(last.preDisk) # {}
          /\ ItemFiles(last.pre[i]) \subseteq FileNames(disk)

\* the name the allocator tries first
FirstChoice(name) ==
    IF name = EmptyStr
    THEN <<"c", "o", "p", "y", "q", "_", "0", "0", "0", "0">>
    ELSE Sanitize(name)

\* how the allocator takes a used name apart: the stem the counter follows,
\* the value the counter starts from, its width and the extension
Parts(name) ==
    LET ext0 == ExtensionToKeep(name, formatSettings)
        base0 == Left(name, Len(name) - Len(ext0))
        chop == EndsWith(base0, <<".">>)
        base1 == IF chop THEN Left(base0, Len(base0) - 1) ELSE base0
        w == TrailingDigits(base1)
    IN  [stem |-> IF w > 0 THEN Left(base1, Len(base1) - w) ELSE Append(base1, "-"),
         start |-> IF w > 0 THEN ToInt(Mid(base1, Len(base1) - w)) ELSE 0,
         width |-> w,
         ext |-> IF chop THEN <<".">> \o ext0 ELSE ext0]

\* the candidate with counter c
Candidate(parts, c) == parts.stem \o Arg(c, parts.width) \o parts.ext

NoDuplicates(names) ==
    \A i, j \in 1..Len(names) : i # j => names[i] # names[j]

\* no candidate with a counter above the start and up to 99999 is free
Exhausted(parts, usedNames) ==
    \A c \in (parts.start + 1)..99999 : InSeq(Candidate(parts, c), usedNames)

\* C22: a call of the allocator either succeeds, with a name that was not
\* used and that is the one name appended to the used names, or fails and
\* leaves the used names alone; it fails only when its first choice is used
\* and no candidate with a counter up to 99999 is free; and the used names
\* never hold a name twice.
C22_AllocatorContract ==
    last.op = "alloc" =>
        /\ last.ok =>
              /\ ~InSeq(last.result, last.before)
              /\ last.usedNames = Append(last.before, last.result)
        /\ ~last.ok =>
              /\ last.usedNames = last.before
              /\ InSeq(FirstChoice(last.name), last.before)
              /\ Exhausted(Parts(FirstChoice(last.name)), last.before)
        /\ NoDuplicates(last.usedNames)

\* a call failed because a99999 was taken, after two calls that succeeded
C22_Witness ==
    /\ last.op = "alloc"
    /\ ~last.ok
    /\ Len(last.usedNames) = 2

\* the run of digits the counter replaces: the digits that end the stem
DigitRun(name) ==
    LET parts == Parts(name)
    IN  SubSeq(name, Len(parts.stem) + 1, Len(parts.stem) + parts.width)

\* what stands in a result between the stem and the extension
CounterOf(parts, result) ==
    SubSeq(result, Len(parts.stem) + 1, Len(result) - Len(parts.ext))

AllDigits(s) == \A k \in 1..Len(s) : IsDigit(s[k])

\* result is the candidate the claim names for a used name: the stem ('-'
\* added when it has no digits), a counter above the value of the digit run
\* (above 0 without one) padded to the width of the run, the extension; and
\* every candidate with a smaller counter above that value is used.  A digit
\* run too long for Decimal has a value above every counter.
NumberedFrom(name, result, usedNames) ==
    LET parts == Parts(name)
        run == DigitRun(name)
        digits == CounterOf(parts, result)
    IN  /\ Len(result) >= Len(parts.stem) + Len(parts.ext) + 1
        /\ Left(result, Len(parts.stem)) = parts.stem
        /\ EndsWith(result, parts.ext)
        /\ AllDigits(digits)
        /\ digits = Arg(Decimal(digits), Len(run))
        /\ Decimal(run) >= 0
        /\ Decimal(digits) > Decimal(run)
        /\ \A c \in (Decimal(run) + 1)..(Decimal(digits) - 1) :
              InSeq(Candidate(parts, c), usedNames)
        /\ ~InSeq(result, usedNames)

\* C23: when the name the allocator tries first is used and the call
\* succeeds, the result keeps the extension with the counter before it; a
\* stem without digits at its end gets '-' and the counter, a stem with
\* digits at its end gets them replaced by the incremented counter padded
\* with zeros to their width; and the counter is the smallest one above the
\* starting value whose candidate is not used.
C23_Numbering ==
    (last.op = "alloc" /\ last.ok /\ InSeq(FirstChoice(last.name), last.before)) =>
        NumberedFrom(FirstChoice(last.name), last.result, last.before)

copyq_0000 == <<"c", "o", "p", "y", "q", "_", "0", "0", "0", "0">>

copyq_0001 == <<"c", "o", "p", "y", "q", "_", "0", "0", "0", "1">>

\* the rows of the pass that had no base name, in ascending order
Unnamed == SelectSeq([i \in 1..Len(last.pre) |-> i],
                     LAMBDA i : /\ i \in last.first..last.lastRow
                                /\ last.pre[i].base = EmptyStr)

\* no row carried the name before the pass
FreeName(name) == \A i \in 1..Len(last.pre) : last.pre[i].base # name

\* C24: a W pass over rows without a base name gives the first of them
\* copyq_0000 and the next copyq_0001, when no row carried these names; and
\* one new row with plain text and no base name, inserted while the model
\* and the directory are empty, ends with the base name copyq_0000, the
\* extension map {text/plain: .txt} and a file copyq_0000.txt that holds
\* the text.
C24_EmptyBaseNames ==
    last.op = "W" =>
        /\ (Len(Unnamed) >= 1 /\ FreeName(copyq_0000)) =>
              rows[Unnamed[1]].base = copyq_0000
        /\ (Len(Unnamed) >= 2 /\ FreeName(copyq_0000) /\ FreeName(copyq_0001)) =>
              rows[Unnamed[2]].base = copyq_0001
        /\ \A tok \in {"a", "b"} :
              (/\ last.pre = <<Item(EmptyStr, {}, {<<mimeText, Raw(tok)>>}, {}, "")>>
               /\ last.preDisk = << >>
               /\ ~last.ioFail
               /\ ~last.mkFail) =>
                  /\ Len(rows) = 1
                  /\ rows[1].base = copyq_0000
                  /\ rows[1].extmap = {<<mimeText, <<".", "t", "x", "t">> >>}
                  /\ FileNames(disk) = {copyq_0000 \o <<".", "t", "x", "t">>}
                  /\ ReadAll(disk, copyq_0000 \o <<".", "t", "x", "t">>) = Raw(tok)

\* two rows without a base name were saved in one pass
C24_Witness ==
    /\ last.op = "W"
    /\ Len(Unnamed) = 2
    /\ rows[Unnamed[1]].base = copyq_0000
    /\ rows[Unnamed[2]].base = copyq_0001

\* one row with plain text was saved into an empty directory
C24_HelloWitness ==
    /\ last.op = "W"
    /\ last.pre = <<Item(EmptyStr, {}, {<<mimeText, Raw("b")>>}, {}, "")>>
    /\ last.preDisk = << >>
    /\ FileNames(disk) = {copyq_0000 \o <<".", "t", "x", "t">>}

\* the name begins with a dot
DotPrefixed(n) == n # << >> /\ n[1] = "."

\* the file is hidden or larger than sizeLimit
Excluded(d, n) == DotPrefixed(n) \/ Size(ReadAll(d, n)) > sizeLimit

\* the row's base name is the beginning of the file's name: the row was
\* created from the file or is matched to it, whatever the extension
NamedAfter(item, n) ==
    /\ item.base # EmptyStr
    /\ Len(item.base) <= Len(n)
    /\ Left(n, Len(item.base)) = item.base

\* C25 as stated: after an R pass or the initial load no row was created
\* from, or is matched to, a hidden file or a file larger than sizeLimit: a
\* row named after such a file is named after another file as well.
C25_ExcludedFromScan ==
    last.op \in {"R", "new"} =>
        \A n \in FileNames(disk), i \in 1..Len(rows) :
            (Excluded(disk, n) /\ NamedAfter(rows[i], n)) =>
                \E m \in FileNames(disk) :
                    ~Excluded(disk, m) /\ NamedAfter(rows[i], m)

\* C25: after an R pass or the initial load no row was created from, or is
\* matched to, a hidden file, and the row created from or matched to a file
\* larger than sizeLimit holds no payload of that size: the file is listed
\* and left unread.
C25_HiddenExcludedLargeUnread ==
    last.op \in {"R", "new"} =>
        \A n \in FileNames(disk), i \in 1..Len(rows) :
            NamedAfter(rows[i], n) =>
                /\ ~DotPrefixed(n)
                /\ Size(ReadAll(disk, n)) > sizeLimit =>
                      \A p \in rows[i].data : Size(p[2]) <= sizeLimit

\* an R pass ran with a hidden file and a file larger than sizeLimit in the
\* directory, and a row is named after the large file
C25_Witness ==
    /\ last.op = "R"
    /\ \E n \in FileNames(disk) : DotPrefixed(n)
    /\ \E n \in FileNames(disk), i \in 1..Len(rows) :
          Size(ReadAll(disk, n)) > sizeLimit /\ NamedAfter(rows[i], n)

\* the files larger than sizeLimit that the scan lists
LargeFiles(d) == {n \in Recognized(d) : Size(ReadAll(d, n)) > sizeLimit}

\* the presence marker: the entry with an empty key and an empty value
Marker == <<"", EmptyStr>>

\* the rows of the pass that carried the marker and the base name of the
\* large file n before the pass
MarkerRows(n) ==
    {i \in last.first..last.lastRow :
        /\ last.pre[i].base = StemOf(last.preDisk, n)
        /\ Marker \in last.pre[i].extmap}

\* C26: after an R pass the row of a file larger than sizeLimit has the
\* marker in its extension map, no entry for the file's extension and no
\* payload under the file's MIME; the hash of the file is the empty one; and
\* a W pass over a row that carries the marker leaves the large file of the
\* row's base name in the directory with its content, neither written nor
\* removed.
C26_LargeFileMarker ==
    /\ last.op = "R" =>
          \A n \in LargeFiles(disk), i \in 1..Len(rows) :
              rows[i].base = StemOf(disk, n) =>
                  /\ Marker \in rows[i].extmap
                  /\ \A p \in rows[i].extmap : p[2] # ExtensionOf(disk, n)
                  /\ \A p \in rows[i].data : p[1] # FormatOf(disk, n)
    /\ \A n \in LargeFiles(disk) : calculateHashFile(ReadAll(disk, n)) = NoHash
    /\ last.op = "W" =>
          \A n \in LargeFiles(last.preDisk) :
              MarkerRows(n) # {} =>
                  /\ Exists(disk, n)
                  /\ ReadAll(disk, n) = ReadAll(last.preDisk, n)
                  /\ n \notin last.wrote
                  /\ n \notin last.gone

\* the extensions the user's format list registers with the MIME "-"
IgnoredExtensions ==
    UNION {{formatSettings[k].extensions[j] :
               j \in 1..Len(formatSettings[k].extensions)} :
           k \in {k \in 1..Len(formatSettings) : formatSettings[k].itemMime = "-"}}

\* the file's name ends with such an extension
IgnoredFile(n) == \E e \in IgnoredExtensions : EndsWith(n, e)

\* C27: after an R pass or the initial load a file whose extension is
\* registered with the MIME "-" has produced no row and given no row a
\* payload or an entry of its extension map: a row named after the file is
\* named after another file of the directory that is not ignored, none of
\* its extensions makes the file's name of its base name, and it has
\* neither a payload nor an extension under the MIME "-".
C27_IgnoreRule ==
    last.op \in {"R", "new"} =>
        \A n \in FileNames(disk), i \in 1..Len(rows) :
            (IgnoredFile(n) /\ NamedAfter(rows[i], n)) =>
                /\ \E m \in FileNames(disk) :
                      ~IgnoredFile(m) /\ NamedAfter(rows[i], m)
                /\ \A p \in rows[i].extmap : rows[i].base \o p[2] # n /\ p[1] # "-"
                /\ \A p \in rows[i].data : p[1] # "-"

\* an R pass ran with an ignored file in the directory beside a file of the
\* same stem that has a row
C27_Witness ==
    /\ last.op = "R"
    /\ \E n \in FileNames(disk), i \in 1..Len(rows) :
          IgnoredFile(n) /\ NamedAfter(rows[i], n)

\* the initial load found nothing but an ignored and a hidden file
C27_LoadWitness ==
    /\ last.op = "new"
    /\ \E n \in FileNames(disk) : IgnoredFile(n)
    /\ rows = << >>

\* the timer was idle when the W pass began and armed when the R pass
\* began right after it: the R pass ran because of what the W pass wrote
OwnWritesRead ==
    /\ last.op = "R"
    /\ last.armed
    /\ last.prevOp = "W"
    /\ ~last.prevArmed

\* the R pass changed nothing in the model and wrote nothing
Absorbed ==
    /\ rows = last.pre
    /\ ReadOnlyPass

\* C28: the R pass that runs because of the watcher's own W writes changes
\* no row and writes no file, and the timer is idle from some pass on.
C28_SelfEventsAbsorbed ==
    /\ [](OwnWritesRead => Absorbed)
    /\ <>[](~timer)

\* the rows the W pass was not asked to save
OutsideRange == {i \in 1..Len(last.pre) : i < last.first \/ i > last.lastRow}

\* the file is in the directory as it was before the step, and the step
\* neither wrote nor removed it
Untouched(n) ==
    /\ Exists(disk, n)
    /\ ReadAll(disk, n) = ReadAll(last.preDisk, n)
    /\ n \notin last.wrote
    /\ n \notin last.gone

\* C29: a W pass for rows first..last leaves every row outside the range
\* with the data it had and every file of such a row as it was; and the
\* removal of a row leaves the other rows and every file as they were.
C29_RangeOnly ==
    /\ last.op = "W" =>
          /\ Len(rows) = Len(last.pre)
          /\ \A i \in OutsideRange :
                /\ rows[i] = last.pre[i]
                /\ \A n \in ItemFiles(last.pre[i]) \cap FileNames(last.preDisk) :
                      Untouched(n)
    /\ last.op = "remove" =>
          /\ rows = RemoveAt(last.pre, last.first)
          /\ disk = last.preDisk
          /\ last.wrote = {}
          /\ last.gone = {}

\* a W pass saved a row beside a row that has a file
C29_Witness ==
    /\ last.op = "W"
    /\ last.wrote # {}
    /\ \E i \in OutsideRange :
          ItemFiles(last.pre[i]) \cap FileNames(last.preDisk) # {}

\* a row that had a file was removed
C29_RemoveWitness ==
    /\ last.op = "remove"
    /\ ItemFiles(last.pre[last.first]) \cap FileNames(disk) # {}

\* the pass inserted a row: a row has a base name no row had before
InsertedByPass ==
    \E i \in 1..Len(rows) : \A j \in 1..Len(last.pre) : rows[i].base # last.pre[j].base

\* C30: an R pass or the initial load that inserts a row does not take the
\* number of rows above maxItems.
C30_RowCap ==
    (last.op \in {"R", "new"} /\ InsertedByPass) => Len(rows) <= maxItems

\* the rows of the W pass whose extension map the pass replaced
Remapped ==
    {i \in last.first..last.lastRow :
        i <= Len(rows) /\ rows[i].extmap # last.pre[i].extmap}

\* the files of the MIMEs that row i had in its extension map and has no
\* more, under the base name the row has now
DroppedFormats(i) ==
    {rows[i].base \o p[2] :
        p \in {q \in last.pre[i].extmap : q[1] \notin Keys(rows[i].extmap)}}

\* C31: a W pass that replaces the extension map of a row deletes the files
\* of the MIMEs the old map had and the new one has not, deletes no other
\* file under the base name of a row of the pass, and leaves every file the
\* new map names in the directory.
C31_RemovedFormats ==
    last.op = "W" =>
        /\ \A i \in Remapped :
              /\ \A n \in DroppedFormats(i) : ~Exists(disk, n)
              /\ \A n \in ItemFiles(rows[i]) :
                    /\ n \notin last.gone
                    /\ (Exists(last.preDisk, n) \/ n \in last.wrote) => Exists(disk, n)
        /\ \A n \in last.gone, i \in last.first..last.lastRow :
              NamedAfter(rows[i], n) => \E k \in Remapped : n \in DroppedFormats(k)

\* the first row of the last pass came from the other tab and one of its
\* files could not be copied: the file is not in the other directory, or a
\* file of the new name was in this directory
CopyFailed ==
    /\ last.op = "W"
    /\ last.first <= Len(rows)
    /\ last.pre[last.first].syncpath = otherPath
    /\ \E p \in last.pre[last.first].extmap :
          \/ ~Exists(otherDisk, last.pre[last.first].base \o p[2])
          \/ Exists(last.preDisk, rows[last.first].base \o p[2])

\* C32: when the files of a row pasted from another tab cannot be copied,
\* the W pass stops there: it writes no file, leaves the rows after the
\* failing one as they were, and the watcher stays invalid.
C32_CopyFailureAborts ==
    CopyFailed =>
        /\ ~valid
        /\ last.wrote = {}
        /\ \A i \in (last.first + 1)..last.lastRow : rows[i] = last.pre[i]

(***************************************************************************)
(* Directories with files named after a suffix of the built-in table       *)
(***************************************************************************)
noteSuffix == <<"_", "n", "o", "t", "e", ".", "t", "x", "t">>

\* the directories the watcher is constructed on: a file whose whole name
\* is the suffix of the notes, alone and next to a text file, and the notes
\* of an item f next to its text
NoteDisks ==
    { <<File(noteSuffix, Raw("a"))>>,
      <<File(noteSuffix, Raw("a")), File(f_txt, Raw("b"))>>,
      <<File(<<"f">> \o noteSuffix, Raw("a")), File(f_txt, Raw("b"))>> }

NoteInit ==
    \E d \in NoteDisks : Constructed(d, FileWatcher(<< >>, d, entryList(d)))

NoteSpec == NoteInit /\ [][Next]_vars

\* the rows an R pass or the constructor created: their base name is that of
\* no row the pass found
CreatedFromFiles ==
    {i \in 1..Len(rows) :
        \A j \in 1..Len(last.pre) : last.pre[j].base # rows[i].base}

Pass == last.op \in {"R", "W", "applyR"}

\* the watcher serves a directory that is the tab's no more
Stale == registered /\ watcherPath # tabPath

\* C34: a change of the settings runs an R pass for the watcher whose path
\* is the tab's new path and for no other; the watcher of a tab whose path
\* was changed or unset is gone, so that no pass runs on its directory any
\* more, and the change leaves the files of the directory as they were.
C34_SettingsChange ==
    /\ last.op = "applyR" => (registered /\ watcherPath = tabPath)
    /\ last.op = "settings" => (~(registered /\ watcherPath = tabPath)
                                /\ disk = last.preDisk)
    /\ ~Stale
    /\ Pass => (registered /\ watcherPath = tabPath)

\* C34 as the code has it: a change of the settings runs an R pass for the
\* watcher whose path is the tab's new path and for no other; it changes
\* neither the rows nor the files of a tab whose path was changed or unset,
\* whose watcher stays registered until the model is unloaded; only a
\* registered watcher runs a pass, and the unload deletes no file.
C34_SettingsChangeDeferred ==
    /\ last.op = "applyR" => (registered /\ watcherPath = tabPath)
    /\ last.op = "settings" =>
          /\ ~(registered /\ watcherPath = tabPath)
          /\ disk = last.preDisk
          /\ rows = last.pre
    /\ Pass => registered
    /\ last.op = "unloaded" => (~registered /\ disk = last.preDisk)

\* the path of the tab was changed or unset while its watcher was
\* registered, and the files of the directory are there
C34_Witness ==
    /\ last.op = "settings"
    /\ Stale
    /\ disk # << >>

\* the watcher went on to save a row in the directory that is the tab's no
\* more
C34_StaleWitness ==
    /\ last.op = "W"
    /\ Stale
    /\ last.wrote # {}

OwnedBefore(n) ==
    \E i \in 1..Len(last.pre) :
        last.pre[i].syncpath = "" /\ n \in ItemFiles(last.pre[i])

C38_IndexAfterRemoval ==
    [][last'.op = "remove" =>
          \A i \in 1..Len(rows') :
              idx'[i] = idx[IF i < last'.first THEN i ELSE i + 1]]_vars
====
